---- MODULE Spec2Model ----
(***************************************************************************)
(* Model of the langsard/pose browser front-ends: the letterbox transform, *)
(* the keypoint coordinate resolver, the pose metrics and the Run/Detect   *)
(* click handlers of the variants in src/app.js, src/unnamed/part_000 and  *)
(* src/unnamed/part_001.                                                   *)
(*                                                                         *)
(* Variants of one file are told apart by a suffix:                        *)
(*   A1, A2, A3  the first, second and third script of src/app.js          *)
(*   P0a, P0b    the first and second script of src/unnamed/part_000       *)
(*   P1          src/unnamed/part_001                                      *)
(***************************************************************************)
EXTENDS Integers, Sequences, FiniteSets, TLC

VARIABLES
  img,        \* the decoded source image [width, height]
  pad,        \* the pad object returned for img, or NoPad
  rawKps,     \* poses[0].keypoints as the detector returned them
  resolved,   \* the keypoints a resolver returned for rawKps, or NoResult
  detected,   \* poses[0].keypoints of the front and of the side view
  confRange,  \* confRange.value, the confidence slider in percent
  report,     \* what the run handler reported, or NoReport
  variant,    \* which of the six scripts the page runs
  loadModel,  \* the promise of loadModel(): pending, resolved or rejected
  inputs,     \* per view: no image, a preview image only, or a chosen file
  disabled,   \* runBtn.disabled
  runs,       \* the invocations of the run handler, in the order of the clicks
  textContent,   \* runBtn.textContent
  previewLoads,  \* the preview images whose load event is still to be delivered
  overshoot,  \* whether the quotient dot / (mag1 * mag2) of parallel vectors,
              \* which is 1 or -1, comes out beyond it in the Numbers of the platform
  points,     \* the arguments A, B, C of an angle function
  posePair,   \* the keypoint arrays given to a metric function
  result,     \* what the function called has returned, or NoResult
  transform   \* the scale and offset applied to the points, or NoTransform

lbVars == <<img, pad>>
rsVars == <<rawKps, resolved>>
anVars == <<detected, confRange, report>>
runVars == <<variant, loadModel, inputs, disabled, runs, textContent, previewLoads>>
fnVars == <<overshoot, points, posePair, result, transform>>
vars == <<img, pad, rawKps, resolved, detected, confRange, report,
         variant, loadModel, inputs, disabled, runs, textContent, previewLoads,
         overshoot, points, posePair, result, transform>>

(***************************************************************************)
(* JavaScript numbers.  Every JS number is an IEEE-754 binary64.  The      *)
(* letterbox code divides, multiplies and subtracts them, and the results  *)
(* are compared with 0, so rounding is modelled.  A non-negative number is *)
(* a string of NLimbs limbs of LimbBits bits, least significant limb       *)
(* first, the last FracLimbs of them below the binary point; bit i of the  *)
(* string weighs 2^(i-1-FracBits).  Every operation computes the exact     *)
(* result and rounds it to MantBits significant bits, to nearest, ties to  *)
(* even, as the hardware does.                                             *)
(***************************************************************************)
MantBits == 52 + 1
LimbBits == 2 * 7
FracLimbs == 2 + 3
NLimbs == FracLimbs + 3
FracBits == FracLimbs * LimbBits

Pow2Table == <<1, 2, 4, 8, 16, 32, 64, 128, 256, 512, 1024, 2048, 4096, 8192, 16384>>
Pow2(n) == Pow2Table[n + 1]

Base == Pow2(LimbBits)

Max(a, b) == IF a >= b THEN a ELSE b
Min(a, b) == IF a <= b THEN a ELSE b
Abs(n) == IF n < 0 THEN -n ELSE n

FxZero == [k \in 1..NLimbs |-> 0]

\* the integer n >= 0 as a number
FromInt(n) ==
  [k \in 1..NLimbs |->
     IF k = FracLimbs + 1 THEN n % Base
     ELSE IF k = FracLimbs + 2 THEN (n \div Base) % Base
     ELSE IF k = FracLimbs + 3 THEN n \div (Base * Base)
     ELSE 0]

\* bit i of the string
Bit(l, i) == (l[((i - 1) \div LimbBits) + 1] \div Pow2((i - 1) % LimbBits)) % 2

\* the number of bits of a limb
BitLen(v) == CHOOSE n \in 0..LimbBits : v < Pow2(n) /\ (n = 0 \/ v >= Pow2(n - 1))

\* position of the leading 1, or 0 for zero
Msb(l) ==
  IF l = FxZero THEN 0
  ELSE LET k == CHOOSE k \in 1..NLimbs : l[k] # 0 /\ \A j \in (k+1)..NLimbs : l[j] = 0
       IN (k - 1) * LimbBits + BitLen(l[k])

\* exact sum of two limb strings
RECURSIVE AddLimbs(_, _, _, _)
AddLimbs(a, b, k, c) ==
  IF k > NLimbs THEN <<>>
  ELSE LET t == a[k] + b[k] + c
       IN <<t % Base>> \o AddLimbs(a, b, k + 1, t \div Base)

\* round the exact value l (plus something below its last bit when sticky)
\* to MantBits significant bits, to nearest, ties to even
RoundNearestEven(l, sticky) ==
  LET p  == Msb(l)
      lo == p - MantBits + 1
  IN IF lo <= 1 THEN l
     ELSE LET kl == ((lo - 1) \div LimbBits) + 1
              o  == (lo - 1) % LimbBits
              kr == ((lo - 2) \div LimbBits) + 1
              r  == (lo - 2) % LimbBits
              rb == Bit(l, lo - 1)
              st == \/ sticky
                    \/ l[kr] % Pow2(r) # 0
                    \/ \E k \in 1..(kr - 1) : l[k] # 0
              t  == [k \in 1..NLimbs |->
                       IF k < kl THEN 0
                       ELSE IF k = kl THEN (l[k] \div Pow2(o)) * Pow2(o)
                       ELSE l[k]]
              one == [k \in 1..NLimbs |-> IF k = kl THEN Pow2(o) ELSE 0]
          IN IF rb = 1 /\ (st \/ Bit(l, lo) = 1) THEN AddLimbs(t, one, 1, 0) ELSE t

\* long division of the limbs l by the integer b, most significant limb first
RECURSIVE DivLimbs(_, _, _, _)
DivLimbs(l, b, k, r) ==
  LET r1 == r * Base + l[k]
      q  == r1 \div b
      r2 == r1 % b
  IN IF k = 1 THEN [q |-> <<q>>, r |-> r2]
     ELSE LET rest == DivLimbs(l, b, k - 1, r2)
          IN [q |-> Append(rest.q, q), r |-> rest.r]

\* a / b for integers a >= 0, b > 0
FDiv(a, b) ==
  LET d == DivLimbs(FromInt(a), b, NLimbs, 0)
  IN RoundNearestEven(d.q, d.r # 0)

\* exact product of the integer d and the limbs l
RECURSIVE MulLimbs(_, _, _, _)
MulLimbs(l, d, k, c) ==
  IF k > NLimbs THEN <<>>
  ELSE LET t == d * l[k] + c
       IN <<t % Base>> \o MulLimbs(l, d, k + 1, t \div Base)

\* d * f for an integer 0 <= d < Base
FMulInt(d, f) == RoundNearestEven(MulLimbs(f, d, 1, 0), FALSE)

FGt(a, b) ==
  \E k \in 1..NLimbs : a[k] > b[k] /\ \A j \in (k+1)..NLimbs : a[j] = b[j]

FMin(a, b) == IF FGt(a, b) THEN b ELSE a

\* exact a - b for a >= b
RECURSIVE SubLimbs(_, _, _, _)
SubLimbs(a, b, k, borrow) ==
  IF k > NLimbs THEN <<>>
  ELSE LET t == a[k] - b[k] - borrow
       IN <<(t + Base) % Base>> \o SubLimbs(a, b, k + 1, IF t < 0 THEN 1 ELSE 0)

FSubMag(a, b) == RoundNearestEven(SubLimbs(a, b, 1, 0), FALSE)

\* a signed number: a sign and a magnitude
Signed(n) == [neg |-> n < 0, mag |-> FromInt(Abs(n))]

\* a - b
FSub(a, b) ==
  IF FGt(b, a) THEN [neg |-> TRUE,  mag |-> FSubMag(b, a)]
  ELSE              [neg |-> FALSE, mag |-> FSubMag(a, b)]

\* s / 2 (exact: no offset is near the subnormal range)
Half(s) ==
  [neg |-> s.neg,
   mag |-> [k \in 1..NLimbs |->
              (s.mag[k] \div 2)
              + (IF k < NLimbs THEN (s.mag[k + 1] % 2) * Pow2(LimbBits - 1) ELSE 0)]]

\* the integer part of f (below 2^31)
IntPart(f) == f[FracLimbs + 1] + Base * (f[FracLimbs + 2] + Base * f[FracLimbs + 3])

\* Math.round of a non-negative number: floor(x + 0.5)
MathRound(f) == IntPart(f) + Bit(f, FracBits)

\* Math.round(n / 2) for an integer n: halves round towards +infinity
RoundHalf(n) == (n + 1) \div 2

IsZero(s) == s.mag = FxZero
IsNegative(s) == s.neg /\ ~IsZero(s)
IsInteger(s) == \A k \in 1..FracLimbs : s.mag[k] = 0

(***************************************************************************)
(* Letterbox transform                                                     *)
(***************************************************************************)
CANVAS_SIZE == 512
target == 350

NoPad == [fn |-> "none"]

\* part_001: pad into the 512 square, rounding the drawn size and the offsets
drawImagePaddedToCanvas(im) ==
  LET srcW  == im.width
      srcH  == im.height
      size  == Max(srcW, srcH)
      scale == FDiv(CANVAS_SIZE, size)
      destW == MathRound(FMulInt(srcW, scale))
      destH == MathRound(FMulInt(srcH, scale))
  IN [fn |-> "drawImagePaddedToCanvas", S |-> CANVAS_SIZE, scale |-> scale,
      offsetX |-> Signed(RoundHalf(CANVAS_SIZE - destW)),
      offsetY |-> Signed(RoundHalf(CANVAS_SIZE - destH)),
      destW |-> destW, destH |-> destH]

\* app.js (first script) and part_000 (second script): pad into the 350 square
drawPadded(im) ==
  LET scale == FMin(FDiv(target, im.width), FDiv(target, im.height))
      newW  == FMulInt(im.width, scale)
      newH  == FMulInt(im.height, scale)
  IN [fn |-> "drawPadded", S |-> target, scale |-> scale,
      offsetX |-> Half(FSub(FromInt(target), newW)),
      offsetY |-> Half(FSub(FromInt(target), newH))]

\* app.js (second and third script): pad to the larger side, rounded offsets
padToSquare(im) ==
  LET w == im.width
      h == im.height
      size == Max(w, h)
  IN [fn |-> "padToSquare", S |-> size, size |-> size,
      offsetX |-> Signed(RoundHalf(size - w)),
      offsetY |-> Signed(RoundHalf(size - h)),
      originalW |-> w, originalH |-> h]

\* part_000 (first script): pad to the larger side, offsets not rounded
padToSquareP0a(im) ==
  LET maxSide == Max(im.width, im.height)
  IN [fn |-> "padToSquareP0a", S |-> maxSide,
      offsetX |-> Half(Signed(maxSide - im.width)),
      offsetY |-> Half(Signed(maxSide - im.height)),
      originalW |-> im.width, originalH |-> im.height]

(***************************************************************************)
(* Keypoints.  A coordinate is a whole number of 1/Unit pixels, so that    *)
(* 1.01 and 204.8 are exact; a score is a whole number of 1/ScoreUnit, so  *)
(* that toFixed(4) has something to round.  A product with a scale that is *)
(* not a whole number is kept to 1/Unit, rounded towards zero.             *)
(***************************************************************************)
Unit == 1000
ScoreUnit == 100000

KP_NAMES ==
  <<"nose", "left_eye", "right_eye", "left_ear", "right_ear",
    "left_shoulder", "right_shoulder", "left_elbow", "right_elbow",
    "left_wrist", "right_wrist", "left_hip", "right_hip",
    "left_knee", "right_knee", "left_ankle", "right_ankle">>

KEYPOINT_NAMES ==
  <<"Nose", "Left Eye", "Right Eye", "Left Ear", "Right Ear",
    "Left Shoulder", "Right Shoulder", "Left Elbow", "Right Elbow",
    "Left Wrist", "Right Wrist", "Left Hip", "Right Hip",
    "Left Knee", "Right Knee", "Left Ankle", "Right Ankle">>

\* a property the object does not have
Undefined == "undefined"

NoResult == [by |-> "none"]

\* floor(n * f) for an integer 0 <= n < Base^2 and a number f
TimesFloor(n, f) ==
  LET lo == MulLimbs(f, n % Base, 1, 0)
      hi == MulLimbs(f, n \div Base, 1, 0)
      up == [k \in 1..NLimbs |-> IF k = 1 THEN 0 ELSE hi[k - 1]]
  IN IntPart(AddLimbs(lo, up, 1, 0))

\* x * f in 1/Unit pixels, for a coordinate x and a number f >= 0
ScaleCoord(x, f) == IF x < 0 THEN -TimesFloor(-x, f) ELSE TimesFloor(x, f)

\* the signed number s in 1/Unit pixels
ToUnits(s) == IF s.neg THEN -TimesFloor(Unit, s.mag) ELSE TimesFloor(Unit, s.mag)

\* Number(v.toFixed(4)) of a score
ToFixed4(v) == ((v + 5) \div 10) * 10

\* normalizeKeypoints without the 1.01 tolerance
normalizeKeypointsNoTolerance(kps, padSize) ==
  [i \in 1..Len(kps) |->
     LET k == kps[i]
         isNorm == k.x <= Unit /\ k.y <= Unit
     IN [x |-> IF isNorm THEN k.x * padSize ELSE k.x,
         y |-> IF isNorm THEN k.y * padSize ELSE k.y,
         score |-> k.score,
         name |-> Undefined]]

\* app.js (second and third script): scale when both coordinates are <= 1.01
normalizeKeypoints(kps, padSize) ==
  [i \in 1..Len(kps) |->
     LET k == kps[i]
         isNorm == k.x * 100 <= 101 * Unit /\ k.y * 100 <= 101 * Unit
     IN [x |-> IF isNorm THEN k.x * padSize ELSE k.x,
         y |-> IF isNorm THEN k.y * padSize ELSE k.y,
         score |-> k.score,
         name |-> Undefined]]

\* part_001: scale one keypoint when both coordinates are <= 1
ensurePixelCoords(kp, canvas) ==
  LET w == canvas.width
      h == canvas.height
  IN IF kp.x <= Unit /\ kp.y <= Unit
     THEN [x |-> kp.x * w, y |-> kp.y * h, score |-> kp.score, name |-> kp.name]
     ELSE [x |-> kp.x, y |-> kp.y, score |-> kp.score, name |-> kp.name]

\* part_001: the rawKps map of processFileToCanvas
resolveKeypointsP1(kps, canvas) ==
  [i \in 1..Len(kps) |->
     LET kp == kps[i]
         isNorm == kp.x <= Unit /\ kp.y <= Unit
     IN [name |-> KP_NAMES[i],
         x |-> IF isNorm THEN kp.x * canvas.width ELSE kp.x,
         y |-> IF isNorm THEN kp.y * canvas.height ELSE kp.y,
         score |-> ToFixed4(kp.score)]]

\* part_000 (second script): apply the letterbox scale and offset
transformKeypoints(kps, p) ==
  [i \in 1..Len(kps) |->
     LET kp == kps[i]
     IN [name |-> kp.name,
         score |-> kp.score,
         x |-> ScaleCoord(kp.x, p.scale) + ToUnits(p.offsetX),
         y |-> ScaleCoord(kp.y, p.scale) + ToUnits(p.offsetY)]]

\* transformKeypoints adding the offset before it multiplies by the scale
transformKeypointsOffsetFirst(kps, scale, x0, y0) ==
  [i \in 1..Len(kps) |->
     LET kp == kps[i]
     IN [name |-> kp.name,
         score |-> kp.score,
         x |-> (kp.x + x0 * Unit) * scale,
         y |-> (kp.y + y0 * Unit) * scale]]

\* app.js (first script): scale and offset given as plain numbers
transformKeypointsA1(kps, scale, x0, y0) ==
  [i \in 1..Len(kps) |->
     LET kp == kps[i]
     IN [name |-> kp.name,
         score |-> kp.score,
         x |-> kp.x * scale + x0 * Unit,
         y |-> kp.y * scale + y0 * Unit]]

\* part_000 (first script): scale by the original image size, add the offset
convertCoords(rawPoints, padInfo) ==
  [i \in 1..Len(rawPoints) |->
     LET kp == rawPoints[i]
     IN [name |-> KEYPOINT_NAMES[i],
         x |-> kp.x * padInfo.originalW + ToUnits(padInfo.offsetX),
         y |-> kp.y * padInfo.originalH + ToUnits(padInfo.offsetY),
         score |-> kp.score]]

(***************************************************************************)
(* Specification of the letterbox functions on their own                   *)
(***************************************************************************)
\* the image sizes tried: every size up to MaxDim, and the 400x300 example
MaxDim == 80
ExampleDims == {300, 350, 400}
Dims == (1..MaxDim) \cup ExampleDims

ResolveIdle == rawKps = <<>> /\ resolved = NoResult

NoPoses == [front |-> <<>>, side |-> <<>>]
NoReport == [by |-> "none"]
AnglesIdle == detected = NoPoses /\ confRange = 0 /\ report = NoReport

\* what is there in the place of a point or keypoint that is undefined
NoPoint == [absent |-> TRUE]
NoPoints == [A |-> NoPoint, B |-> NoPoint, C |-> NoPoint]
NoTransform == [by |-> "none"]
FunctionsIdle ==
  /\ transform = NoTransform
  /\ overshoot = FALSE
  /\ points = NoPoints
  /\ posePair = NoPoses
  /\ result = NoResult

Views == {"front", "side"}
RunIdle ==
  /\ variant = "none"
  /\ loadModel = "pending"
  /\ inputs = [v \in Views |-> "none"]
  /\ disabled = FALSE
  /\ runs = <<>>
  /\ textContent = "Run"
  /\ previewLoads = {}

LbInit ==
  /\ img \in [width : Dims, height : Dims]
  /\ pad = NoPad
  /\ ResolveIdle
  /\ AnglesIdle
  /\ RunIdle
  /\ FunctionsIdle

CallDrawImagePaddedToCanvas ==
  /\ pad = NoPad
  /\ pad' = drawImagePaddedToCanvas(img)
  /\ UNCHANGED <<img, rsVars, anVars, runVars, fnVars>>

CallDrawPadded ==
  /\ pad = NoPad
  /\ pad' = drawPadded(img)
  /\ UNCHANGED <<img, rsVars, anVars, runVars, fnVars>>

CallPadToSquare ==
  /\ pad = NoPad
  /\ pad' = padToSquare(img)
  /\ UNCHANGED <<img, rsVars, anVars, runVars, fnVars>>

CallPadToSquareP0a ==
  /\ pad = NoPad
  /\ pad' = padToSquareP0a(img)
  /\ UNCHANGED <<img, rsVars, anVars, runVars, fnVars>>

LbNext ==
  \/ CallDrawImagePaddedToCanvas
  \/ CallDrawPadded
  \/ CallPadToSquare
  \/ CallPadToSquareP0a

SpecLetterbox == LbInit /\ [][LbNext]_vars

\* C4: every returned pad has offsetX >= 0, offsetY >= 0 and one of them 0
C4_LetterboxInvariant ==
  pad # NoPad =>
    /\ ~IsNegative(pad.offsetX)
    /\ ~IsNegative(pad.offsetY)
    /\ (IsZero(pad.offsetX) \/ IsZero(pad.offsetY))

\* round(a / b) for a >= 0, b > 0, halves up: the spec's round((S - src*scale)/2)
\* is RoundDiv(S * (m - src), 2 * m) with m the larger side
RoundDiv(a, b) == (2 * a + b) \div (2 * b)

\* C5: drawImagePaddedToCanvas and drawPadded return
\* offsetX = round((S - srcW*scale)/2), offsetY = round((S - srcH*scale)/2)
\* with scale = S / max(srcW, srcH)
C5_OffsetFormula ==
  pad.fn \in {"drawImagePaddedToCanvas", "drawPadded"} =>
    LET m == Max(img.width, img.height)
    IN /\ pad.offsetX = Signed(RoundDiv(pad.S * (m - img.width), 2 * m))
       /\ pad.offsetY = Signed(RoundDiv(pad.S * (m - img.height), 2 * m))

(***************************************************************************)
(* Specification of the coordinate resolvers: one detector result, one     *)
(* image, and each pipeline that pads the image and resolves the result    *)
(***************************************************************************)
\* coordinates a detector may return: normalized, at the unit boundary, pixels
RawCoords == {-500, 0, 1, 400, 500, 1000, 1005, 1010, 1011, 175000, 204800, 256000}
RawScores == {10000, 29996, 62000}
MaxKps == 2

RawKeypoint(i) ==
  {[x |-> cx, y |-> cy, score |-> sc, name |-> KP_NAMES[i]] :
     cx \in RawCoords, cy \in RawCoords, sc \in RawScores}

\* the keypoints after the first vary less
OtherKeypoint(i) ==
  {[x |-> c, y |-> c, score |-> 62004, name |-> KP_NAMES[i]] : c \in {500, 256000}}

RawPoses ==
  UNION {{[i \in 1..n |-> IF i = 1 THEN first ELSE rest[i]] :
            first \in RawKeypoint(1), rest \in [1..n -> OtherKeypoint(2)]} :
         n \in 1..MaxKps}

ResolveImages ==
  {[width |-> 350, height |-> 350], [width |-> 400, height |-> 300],
   [width |-> 300, height |-> 400]}

\* the canvases ensurePixelCoords is tried on
FrameSides == {target, CANVAS_SIZE}
Canvas(side) == [width |-> side, height |-> side]

\* part_001: drawPoseOnCanvas resolves again whatever it is given and returns it
drawPoseOnCanvas(keypoints, canvas) ==
  [i \in 1..Len(keypoints) |-> ensurePixelCoords(keypoints[i], canvas)]

RsInit ==
  /\ img \in ResolveImages
  /\ pad = NoPad
  /\ rawKps \in RawPoses
  /\ resolved = NoResult
  /\ AnglesIdle
  /\ RunIdle
  /\ FunctionsIdle

\* app.js (second and third script): padToSquare, estimatePoses, normalizeKeypoints
RunNormalizeKeypoints ==
  /\ resolved = NoResult
  /\ pad' = padToSquare(img)
  /\ resolved' = [by |-> "normalizeKeypoints", S |-> pad'.size,
                  kps |-> normalizeKeypoints(rawKps, pad'.size)]
  /\ UNCHANGED <<img, rawKps, anVars, runVars, fnVars>>

\* app.js (first script): process = drawPadded, estimatePoses, transformKeypoints(kps, 1, 0, 0)
RunProcessA1 ==
  /\ resolved = NoResult
  /\ pad' = drawPadded(img)
  /\ resolved' = [by |-> "processA1", S |-> pad'.S,
                  kps |-> transformKeypointsA1(rawKps, 1, 0, 0)]
  /\ UNCHANGED <<img, rawKps, anVars, runVars, fnVars>>

\* part_000 (second script): process = drawPadded, estimatePoses, transformKeypoints(kps, pad)
RunProcessP0b ==
  /\ resolved = NoResult
  /\ pad' = drawPadded(img)
  /\ resolved' = [by |-> "processP0b", S |-> pad'.S,
                  kps |-> transformKeypoints(rawKps, pad')]
  /\ UNCHANGED <<img, rawKps, anVars, runVars, fnVars>>

\* part_000 (first script): padToSquare, estimatePoses, convertCoords
RunDetectP0a ==
  /\ resolved = NoResult
  /\ pad' = padToSquareP0a(img)
  /\ resolved' = [by |-> "detectP0a", S |-> pad'.S,
                  kps |-> convertCoords(rawKps, pad')]
  /\ UNCHANGED <<img, rawKps, anVars, runVars, fnVars>>

\* part_001: processFileToCanvas = drawImagePaddedToCanvas, estimatePoses,
\* the rawKps map, drawPoseOnCanvas
RunProcessFileToCanvas ==
  /\ resolved = NoResult
  /\ pad' = drawImagePaddedToCanvas(img)
  /\ LET kps == resolveKeypointsP1(rawKps, Canvas(CANVAS_SIZE))
     IN resolved' = [by |-> "processFileToCanvas", S |-> CANVAS_SIZE, kps |-> kps,
                     drawn |-> drawPoseOnCanvas(kps, Canvas(CANVAS_SIZE))]
  /\ UNCHANGED <<img, rawKps, anVars, runVars, fnVars>>

\* part_001: ensurePixelCoords on each raw keypoint, for a canvas of either side
CallEnsurePixelCoords ==
  /\ resolved = NoResult
  /\ \E side \in FrameSides :
       resolved' = [by |-> "ensurePixelCoords", S |-> side,
                    kps |-> [i \in 1..Len(rawKps) |-> ensurePixelCoords(rawKps[i], Canvas(side))]]
  /\ UNCHANGED <<img, pad, rawKps, anVars, runVars, fnVars>>

RsNext ==
  \/ RunNormalizeKeypoints
  \/ RunProcessA1
  \/ RunProcessP0b
  \/ RunDetectP0a
  \/ RunProcessFileToCanvas
  \/ CallEnsurePixelCoords

SpecResolve == RsInit /\ [][RsNext]_vars

\* keypoint i went from rawKps to resolved scaled by the frame side S when both raw
\* coordinates are <= limit (in 1/Unit), and unchanged otherwise
ResolvedWithLimit(i, limit) ==
  LET r == rawKps[i]
      o == resolved.kps[i]
  IN IF r.x <= limit /\ r.y <= limit
     THEN o.x = r.x * resolved.S /\ o.y = r.y * resolved.S
     ELSE o.x = r.x /\ o.y = r.y

Tolerance == (101 * Unit) \div 100

\* C1 as stated: normalizeKeypoints, ensurePixelCoords and the resolver of
\* processFileToCanvas all scale by S when x <= 1.01 and y <= 1.01 and pass the
\* position through otherwise
C1_ResolutionAsStated ==
  resolved.by \in {"normalizeKeypoints", "ensurePixelCoords", "processFileToCanvas"} =>
    \A i \in 1..Len(rawKps) : ResolvedWithLimit(i, Tolerance)

\* C1 amended: normalizeKeypoints scales by S when x <= 1.01 and y <= 1.01;
\* ensurePixelCoords and the resolver of processFileToCanvas scale when x <= 1 and
\* y <= 1 (no tolerance); each passes every other position through unchanged
C1_Resolution ==
  /\ resolved.by = "normalizeKeypoints" =>
       \A i \in 1..Len(rawKps) : ResolvedWithLimit(i, Tolerance)
  /\ resolved.by \in {"ensurePixelCoords", "processFileToCanvas"} =>
       \A i \in 1..Len(rawKps) : ResolvedWithLimit(i, Unit)

\* C1 witness: ensurePixelCoords left (1.005, 0.5) alone, and normalized (0.5, 0.5)
\* on the 350 frame came out as (175, 175) beside it
C1_Witness ==
  /\ resolved.by = "ensurePixelCoords"
  /\ resolved.S = 350
  /\ Len(rawKps) = 2
  /\ rawKps[1].x = 1005 /\ rawKps[1].y = 500
  /\ resolved.kps[1].x = 1005 /\ resolved.kps[1].y = 500
  /\ rawKps[2].x = 500 /\ rawKps[2].y = 500
  /\ resolved.kps[2].x = 175000 /\ resolved.kps[2].y = 175000

\* C28: in part_001 the second resolution, applied by drawPoseOnCanvas to the
\* keypoints processFileToCanvas has resolved, leaves every position unchanged:
\* the positions drawn equal the positions returned
C28_ResolutionIdempotent ==
  resolved.by = "processFileToCanvas" =>
    \A i \in 1..Len(resolved.kps) :
      /\ resolved.drawn[i].x = resolved.kps[i].x
      /\ resolved.drawn[i].y = resolved.kps[i].y

\* C6: the pipelines of part_000 and part_001 output a keypoint normalized to
\* [0,1]^2 at (x*S, y*S) and a keypoint in padded-canvas pixels where it is
C6_PaddedFrame ==
  resolved.by \in {"processP0b", "detectP0a", "processFileToCanvas"} =>
    \A i \in 1..Len(rawKps) :
      LET r == rawKps[i]
          o == resolved.kps[i]
      IN /\ (0 <= r.x /\ r.x <= Unit /\ 0 <= r.y /\ r.y <= Unit) =>
              (o.x = r.x * resolved.S /\ o.y = r.y * resolved.S)
         /\ (Tolerance < r.x /\ r.x <= resolved.S * Unit /\
             Tolerance < r.y /\ r.y <= resolved.S * Unit) => (o.x = r.x /\ o.y = r.y)

\* C7: normalizeKeypoints, transformKeypoints (part_000) and the resolver of
\* processFileToCanvas keep the length, and keypoint i keeps its score and name
C7_IdentityPreserved ==
  resolved.by \in {"normalizeKeypoints", "processP0b", "processFileToCanvas"} =>
    /\ Len(resolved.kps) = Len(rawKps)
    /\ \A i \in 1..Len(rawKps) :
         /\ resolved.kps[i].score = rawKps[i].score
         /\ resolved.kps[i].name = rawKps[i].name

(***************************************************************************)
(* Angles of the dual-view analyzer (part_001)                             *)
(***************************************************************************)
\* an angle is null or a number of degrees
Null == <<>>
Degrees(d) == <<d>>

ANGLE_DEFS ==
  << [label |-> "Left Elbow",     triple |-> <<"left_shoulder", "left_elbow", "left_wrist">>],
     [label |-> "Right Elbow",    triple |-> <<"right_shoulder", "right_elbow", "right_wrist">>],
     [label |-> "Left Shoulder",  triple |-> <<"left_elbow", "left_shoulder", "left_hip">>],
     [label |-> "Right Shoulder", triple |-> <<"right_elbow", "right_shoulder", "right_hip">>],
     [label |-> "Left Knee",      triple |-> <<"left_hip", "left_knee", "left_ankle">>],
     [label |-> "Right Knee",     triple |-> <<"right_hip", "right_knee", "right_ankle">>],
     [label |-> "Left Hip",       triple |-> <<"left_shoulder", "left_hip", "left_knee">>],
     [label |-> "Right Hip",      triple |-> <<"right_shoulder", "right_hip", "right_knee">>] >>

Labels == {ANGLE_DEFS[j].label : j \in 1..Len(ANGLE_DEFS)}
TripleOf(label) == CHOOSE j \in 1..Len(ANGLE_DEFS) : ANGLE_DEFS[j].label = label
Triple(label) == ANGLE_DEFS[TripleOf(label)].triple

\* KP_NAMES.indexOf(name), counted from 1
idx(name) == CHOOSE i \in 1..Len(KP_NAMES) : KP_NAMES[i] = name

RECURSIVE GCD(_, _)
GCD(a, b) == IF b = 0 THEN a ELSE GCD(b, a % b)

\* the direction of a vector in lowest terms: the cosine between two vectors
\* does not change when either is divided by a positive number
Direction(dx, dy) ==
  LET g == GCD(Abs(dx), Abs(dy))
  IN [x |-> IF dx < 0 THEN 0 - (Abs(dx) \div g) ELSE dx \div g,
      y |-> IF dy < 0 THEN 0 - (Abs(dy) \div g) ELSE dy \div g]

\* cos^2 of 0..90 degrees in 1/100000, rounded; exact at 0, 30, 45, 60, 90
Cos2Table ==
  <<100000, 99970, 99878, 99726, 99513, 99240, 98907, 98515, 98063, 97553,
    96985, 96359, 95677, 94940, 94147, 93301, 92402, 91452, 90451, 89401,
    88302, 87157, 85967, 84733, 83457, 82140, 80783, 79389, 77960, 76496,
    75000, 73474, 71919, 70337, 68730, 67101, 65451, 63782, 62096, 60396,
    58682, 56958, 55226, 53488, 51745, 50000, 48255, 46512, 44774, 43042,
    41318, 39604, 37904, 36218, 34549, 32899, 31270, 29663, 28081, 26526,
    25000, 23504, 22040, 20611, 19217, 17861, 16543, 15267, 14033, 12843,
    11698, 10599, 9549, 8548, 7598, 6699, 5853, 5060, 4323, 3641,
    3015, 2447, 1937, 1486, 1093, 760, 486, 274, 122, 30, 0>>
Cos2(d) == Cos2Table[d + 1]
Cos2One == Cos2(0)

\* Math.acos(cos) * 180 / Math.PI in whole degrees (the fraction dropped), for
\* cos = dot / sqrt(n); the clamp to [-1, 1] is the range of the table
AcosDegrees(dot, n) ==
  LET a == CHOOSE d \in 0..90 :
             /\ dot * dot * Cos2One <= Cos2(d) * n
             /\ d < 90 => dot * dot * Cos2One > Cos2(d + 1) * n
      whole == a \in {0, 30, 45, 60, 90} /\ dot * dot * Cos2One = Cos2(a) * n
  IN IF dot >= 0 THEN Degrees(a)
     ELSE IF whole THEN Degrees(180 - a) ELSE Degrees(180 - (a + 1))

\* what a function returns in the place of a number when it divides 0 by 0 or
\* takes the arccosine of a value beyond 1: a pair, so that it equals no angle
NaN == <<0, 0>>

\* the quotient dot / (mag1 * mag2) of two vectors of non-zero length, as dot and
\* n = (mag1 * mag2)^2 of their directions; over when it comes out beyond 1 or -1
Quotient(ABx, ABy, CBx, CBy) ==
  LET u == Direction(ABx, ABy)
      v == Direction(CBx, CBy)
      dot == u.x * v.x + u.y * v.y
      n == (u.x * u.x + u.y * u.y) * (v.x * v.x + v.y * v.y)
  IN [dot |-> dot, n |-> n, over |-> overshoot /\ dot * dot = n]

\* the cosine passed on as it is
noClamp(cos) == cos

\* Math.max(-1, Math.min(1, cos))
clamp(cos) == [cos EXCEPT !.over = FALSE]

\* Math.acos(cos) * 180 / Math.PI: NaN beyond [-1, 1]
acos(cos) == IF cos.over THEN NaN ELSE AcosDegrees(cos.dot, cos.n)

ZeroLength(A, B) == A.x = B.x /\ A.y = B.y

\* angleAtB without the test for a vector of length 0: 0 / 0 is NaN
angleAtBUnguarded(A, B, C) ==
  IF ZeroLength(A, B) \/ ZeroLength(C, B) THEN NaN
  ELSE acos(clamp(Quotient(A.x - B.x, A.y - B.y, C.x - B.x, C.y - B.y)))

\* part_001: angle at B between BA and BC; null when either vector has length 0
angleAtB(A, B, C) ==
  LET ABx == A.x - B.x
      ABy == A.y - B.y
      CBx == C.x - B.x
      CBy == C.y - B.y
  IN IF (ABx = 0 /\ ABy = 0) \/ (CBx = 0 /\ CBy = 0) THEN Null
     ELSE acos(clamp(Quotient(ABx, ABy, CBx, CBy)))

\* the greatest in the place of the least
Max3(a, b, c) == Max(a, Max(b, c))

Min3(a, b, c) == Min(a, Min(b, c))

\* kps[i] is an object: i is within the array and the entry is not undefined
Present(kps, i) == i \in 1..Len(kps) /\ kps[i] # NoPoint

\* computeAnglesFromKPs going on with a keypoint that is missing
computeAnglesFromKPsUnguarded(kps) ==
  [label \in Labels |->
     LET t == Triple(label)
         a == idx(t[1])
         b == idx(t[2])
         c == idx(t[3])
     IN IF ~Present(kps, a) \/ ~Present(kps, b) \/ ~Present(kps, c)
        THEN [angle |-> NaN, conf |-> 0]
        ELSE [angle |-> angleAtB(kps[a], kps[b], kps[c]),
              conf  |-> ToFixed4(Min3(kps[a].score, kps[b].score, kps[c].score))]]

\* part_001: per joint the angle and the least of the three scores; a keypoint
\* absent from the array gives angle null, conf 0
computeAnglesFromKPs(kps) ==
  [label \in Labels |->
     LET t == Triple(label)
         a == idx(t[1])
         b == idx(t[2])
         c == idx(t[3])
     IN IF ~Present(kps, a) \/ ~Present(kps, b) \/ ~Present(kps, c)
        THEN [angle |-> Null, conf |-> 0]
        ELSE [angle |-> angleAtB(kps[a], kps[b], kps[c]),
              conf  |-> ToFixed4(Min3(kps[a].score, kps[b].score, kps[c].score))]]

\* chooseBestPerAngle taking the front view only when it is strictly better
chooseBestPerAngleStrict(frontAngles, sideAngles) ==
  [key \in Labels |->
     LET f == frontAngles[key]
         s == sideAngles[key]
     IN IF f.conf > s.conf
        THEN [view |-> "front", angle |-> f.angle, conf |-> f.conf]
        ELSE [view |-> "side", angle |-> s.angle, conf |-> s.conf]]

\* part_001: per joint the view of the higher conf, the front view on a tie
chooseBestPerAngle(frontAngles, sideAngles) ==
  [key \in Labels |->
     LET f == frontAngles[key]
         s == sideAngles[key]
     IN IF f.conf >= s.conf
        THEN [view |-> "front", angle |-> f.angle, conf |-> f.conf]
        ELSE [view |-> "side", angle |-> s.angle, conf |-> s.conf]]

\* confRange.value / 100 as a score
confThresh(value) == value * (ScoreUnit \div 100)

(***************************************************************************)
(* Specification of the angle report: what the detector returned for the   *)
(* two views, the confidence slider, and the report of the run handler     *)
(***************************************************************************)
\* body shapes on a grid of 50 px, in the order of KP_NAMES
Standing ==
  << <<4, 0>>, <<5, 0>>, <<3, 0>>, <<6, 0>>, <<2, 0>>, <<5, 1>>, <<3, 1>>, <<6, 2>>, <<2, 2>>,
     <<6, 4>>, <<2, 4>>, <<5, 4>>, <<3, 4>>, <<5, 6>>, <<3, 6>>, <<5, 8>>, <<3, 8>> >>
\* as Standing, the left elbow on the left shoulder and the right knee on the right hip
Collapsed ==
  << <<4, 0>>, <<5, 0>>, <<3, 0>>, <<6, 0>>, <<2, 0>>, <<5, 1>>, <<3, 1>>, <<5, 1>>, <<2, 2>>,
     <<6, 4>>, <<2, 4>>, <<5, 4>>, <<3, 4>>, <<5, 6>>, <<3, 4>>, <<5, 8>>, <<3, 8>> >>
Profile ==
  << <<5, 0>>, <<5, 0>>, <<5, 0>>, <<4, 0>>, <<4, 0>>, <<4, 1>>, <<4, 1>>, <<4, 3>>, <<4, 3>>,
     <<6, 3>>, <<6, 3>>, <<4, 4>>, <<4, 4>>, <<6, 5>>, <<6, 5>>, <<5, 8>>, <<5, 8>> >>

\* a grid position as the detector returns it: a tenth of the frame per step
\* when normalized, 50 px per step (one step in from the edge) otherwise
GridCoord(g, normalized) ==
  IF normalized THEN g * (Unit \div 10) ELSE (g + 1) * 50 * Unit

FrontScores == {29996, 62004, 90000}
SideScores == {62000, 95000}
LowScore == ScoreUnit \div 10
MaxLow == 1
\* the keypoints the angles use
JointKeypoints == {idx(ANGLE_DEFS[j].triple[k]) : j \in 1..Len(ANGLE_DEFS), k \in 1..3}

DetectedPose(shape, normalized, base, low) ==
  [i \in 1..Len(KP_NAMES) |->
     [x |-> GridCoord(shape[i][1], normalized),
      y |-> GridCoord(shape[i][2], normalized),
      score |-> IF i \in low THEN LowScore ELSE base,
      name |-> KP_NAMES[i]]]

FrontPoses ==
  {DetectedPose(shape, normalized, base, low) :
     shape \in {Standing, Collapsed}, normalized \in BOOLEAN, base \in FrontScores,
     low \in {l \in SUBSET JointKeypoints : Cardinality(l) <= MaxLow}}
SidePoses ==
  {DetectedPose(shape, FALSE, base, {}) : shape \in {Profile, Standing}, base \in SideScores}

ConfRangeValues == {10, 30, 50}

AnInit ==
  /\ img = [width |-> CANVAS_SIZE, height |-> CANVAS_SIZE]
  /\ pad = NoPad
  /\ ResolveIdle
  /\ detected \in [front : FrontPoses, side : SidePoses]
  /\ confRange \in ConfRangeValues
  /\ report = NoReport
  /\ RunIdle
  /\ FunctionsIdle

\* part_001: the input listener of the confidence slider
MoveConfRange ==
  /\ \E value \in ConfRangeValues \ {confRange} : confRange' = value
  /\ UNCHANGED <<lbVars, rsVars, detected, report, runVars, fnVars>>

\* the indexes drawPoseOnCanvas paints cyan: score >= confThresh
Cyan(kps, thresh) == {i \in 1..Len(kps) : kps[i].score >= thresh}

\* part_001 run handler with a pose found in both views: processFileToCanvas for
\* front and side, computeAnglesFromKPs for both, chooseBestPerAngle
RunAnalysis ==
  /\ report = NoReport
  /\ LET frontKps == resolveKeypointsP1(detected.front, Canvas(CANVAS_SIZE))
         sideKps == resolveKeypointsP1(detected.side, Canvas(CANVAS_SIZE))
         frontAngles == computeAnglesFromKPs(frontKps)
         sideAngles == computeAnglesFromKPs(sideKps)
     IN report' = [by |-> "runBtn", thresh |-> confThresh(confRange),
                   frontKps |-> frontKps, sideKps |-> sideKps,
                   frontCyan |-> Cyan(frontKps, confThresh(confRange)),
                   sideCyan |-> Cyan(sideKps, confThresh(confRange)),
                   frontAngles |-> frontAngles, sideAngles |-> sideAngles,
                   chosen |-> chooseBestPerAngle(frontAngles, sideAngles)]
  /\ UNCHANGED <<lbVars, rsVars, detected, confRange, runVars, fnVars>>

AnNext ==
  \/ MoveConfRange
  \/ RunAnalysis

SpecAngles == AnInit /\ [][AnNext]_vars

\* some keypoint of the joint has a score below the threshold of the report
BelowThreshold(kps, label) ==
  \E k \in 1..3 : kps[idx(Triple(label)[k])].score < report.thresh

\* C2: in the report of part_001 the front, side and chosen angle of a joint is
\* null whenever one of the joint's three keypoints has a confidence below the
\* threshold selected with confRange
C2_ConfidenceGating ==
  report # NoReport =>
    \A label \in Labels :
      /\ BelowThreshold(report.frontKps, label) => report.frontAngles[label].angle = Null
      /\ BelowThreshold(report.sideKps, label) => report.sideAngles[label].angle = Null
      /\ (report.chosen[label].view = "front" /\ BelowThreshold(report.frontKps, label))
           => report.chosen[label].angle = Null
      /\ (report.chosen[label].view = "side" /\ BelowThreshold(report.sideKps, label))
           => report.chosen[label].angle = Null

\* C3: for every joint the chosen view is front when the front conf >= the side
\* conf and side otherwise, and the chosen angle and conf are those of that view
C3_ChooseBestPerAngle ==
  report # NoReport =>
    \A label \in Labels :
      LET f == report.frontAngles[label]
          s == report.sideAngles[label]
          c == report.chosen[label]
      IN /\ c.view = IF f.conf >= s.conf THEN "front" ELSE "side"
         /\ c.view = "front" => (c.angle = f.angle /\ c.conf = f.conf)
         /\ c.view = "side" => (c.angle = s.angle /\ c.conf = s.conf)

\* C3 witness: one report with a tie at 0.62 given to the front view, and with
\* one joint taken from the front view and another from the side view
C3_Witness ==
  /\ report # NoReport
  /\ \E label \in Labels :
       /\ report.frontAngles[label].conf = 62000
       /\ report.sideAngles[label].conf = 62000
       /\ report.chosen[label].view = "front"
  /\ \E l1, l2 \in Labels :
       /\ report.chosen[l1].view = "front"
       /\ report.chosen[l2].view = "side"
       /\ report.chosen[l2].angle = report.sideAngles[l2].angle
       /\ report.chosen[l2].angle # Null

(***************************************************************************)
(* Specification of the run handlers: model loading, file selection, Run   *)
(* clicks, image-load events and detector results, in any interleaving     *)
(***************************************************************************)
Variants == {"A1", "A2", "A3", "P0a", "P0b", "P1"}
\* the scripts that set runBtn.disabled
Disabling == {"A2", "A3"}
\* the script that listens to the load events of the preview images
Listening == {"A2"}
MaxRuns == 2

detectorSet == loadModel = "resolved"

NewRun ==
  [pc |-> "click", readyAtClick |-> detectorSet, inputs |-> inputs, loaded |-> {},
   called |-> {}, done |-> {}, found |-> {}, metrics |-> FALSE, outcome |-> "running"]

\* the handler returns, or stops at an exception
End(run, outcome) == [run EXCEPT !.pc = "end", !.outcome = outcome]

\* detector.estimatePoses(...) for a view: a TypeError while detector is unset
estimatePoses(run, v) ==
  IF detectorSet
  THEN [run EXCEPT !.called = @ \cup {v},
                   !.pc = IF v = "front" THEN "detFront" ELSE "detSide"]
  ELSE End(run, "threw")

\* the test before the metrics with "and" in the place of "or"
missingBothViews(frontKP, sideKP) == ~frontKP /\ ~sideKP

\* part_000: !frontKP || !sideKP; part_001: !frontRes || !sideRes
missingOneOfTheViews(frontKP, sideKP) == ~frontKP \/ ~sideKP

\* the handler after the side view, up to its return
AfterSide(run) ==
  LET both == ~missingOneOfTheViews("front" \in run.found, "side" \in run.found)
  IN CASE variant = "A1" ->
            \* pickBetter is logged when both views gave keypoints; nothing is shown
            [End(run, "logged") EXCEPT !.metrics = run.found = Views]
       [] variant = "P0b" ->
            IF both THEN [End(run, "report") EXCEPT !.metrics = TRUE]
            ELSE End(run, "missingView")
       [] variant = "P1" ->
            IF both THEN [End(run, "report") EXCEPT !.metrics = TRUE]
            ELSE End(run, "noPose")
       [] variant = "A2" ->
            \* the table, and the angles of each view that gave coordinates
            [End(run, "report") EXCEPT !.metrics = run.found # {}]
       [] OTHER ->
            \* third script of app.js: the table only
            End(run, "report")

\* the handler from the start of the side view up to its next await
BeginSide(run) ==
  CASE variant \in {"A1", "P0b"} ->
         \* process(sideFile): null without a file, else await img.onload
         IF run.inputs.side = "file" THEN [run EXCEPT !.pc = "imgSide"] ELSE AfterSide(run)
    [] variant = "P1" -> [run EXCEPT !.pc = "imgSide"]
    [] variant = "A2" ->
         IF inputs.side # "none" THEN [run EXCEPT !.pc = "imgSide"] ELSE AfterSide(run)
    [] OTHER ->
         IF run.inputs.side = "file" THEN [run EXCEPT !.pc = "imgSide"]
         ELSE IF inputs.side # "none" THEN estimatePoses(run, "side")
         ELSE AfterSide(run)

\* the handler from the start of the front view up to its next await
BeginFront(run) ==
  CASE variant \in {"A1", "P0b"} ->
         IF run.inputs.front = "file" THEN [run EXCEPT !.pc = "imgFront"] ELSE BeginSide(run)
    [] variant = "P1" -> [run EXCEPT !.pc = "imgFront"]
    [] variant = "A2" ->
         IF inputs.front # "none" THEN [run EXCEPT !.pc = "imgFront"] ELSE BeginSide(run)
    [] OTHER ->
         IF run.inputs.front = "file" THEN [run EXCEPT !.pc = "imgFront"]
         ELSE IF inputs.front # "none" THEN estimatePoses(run, "front")
         ELSE BeginSide(run)

bothFiles(run) == run.inputs.front = "file" /\ run.inputs.side = "file"

\* the click handler up to its first await or its return
OnClick(run) ==
  CASE variant \in {"A1", "P0b"} -> BeginFront(run)
    [] variant = "P0a" ->
         IF ~detectorSet THEN End(run, "notReady")
         ELSE IF ~bothFiles(run) THEN End(run, "missingInput")
         ELSE [run EXCEPT !.pc = "loads"]
    [] variant = "P1" ->
         IF ~detectorSet THEN End(run, "notReady")
         ELSE IF ~bothFiles(run) THEN End(run, "missingInput")
         ELSE BeginFront(run)
    [] variant = "A2" ->
         IF ~detectorSet THEN End(run, "notReady") ELSE BeginFront(run)
    [] OTHER ->
         IF run.inputs.front # "file" /\ run.inputs.side # "file"
         THEN End(run, "missingInput")
         ELSE BeginFront(run)

\* the handler after estimatePoses returned for view v, up to its next await
OnDetection(run, v, pose) ==
  LET got == [run EXCEPT !.done = @ \cup {v},
                         !.found = IF pose THEN @ \cup {v} ELSE @]
  IN IF variant = "P0a"
     THEN \* part_000 first script: detF[0].keypoints throws without a pose
          IF ~pose THEN End(got, "threw")
          ELSE IF v = "front" THEN estimatePoses(got, "side")
          ELSE [End(got, "report") EXCEPT !.metrics = TRUE]
     ELSE IF v = "front" THEN BeginSide(got) ELSE AfterSide(got)

\* the handler with the button restored at the end of the try block in the
\* place of a finally block
DisabledAfterTry(run) ==
  IF variant \notin Disabling \/ run.outcome = "notReady" THEN disabled
  ELSE run.pc # "end" \/ run.outcome \in {"caught", "threw"}

\* runBtn.disabled after a step of the handler: true while it runs, false from
\* its finally block (the early return of the second script is outside of try)
DisabledAfter(run) ==
  IF variant \notin Disabling \/ run.outcome = "notReady" THEN disabled
  ELSE run.pc # "end"

\* runBtn.textContent after a step of the handler
TextAfter(run) ==
  IF variant \notin Disabling \/ run.outcome = "notReady" THEN textContent
  ELSE IF run.pc # "end" THEN "Running..." ELSE "Run"

hasPreview == inputs.front # "none" \/ inputs.side # "none"

\* updateRunButtonState of the second and third script of app.js
updateRunButtonState(ready, ins) ==
  ~ready \/ (ins.front = "none" /\ ins.side = "none")

RunInit ==
  /\ img = [width |-> CANVAS_SIZE, height |-> CANVAS_SIZE]
  /\ pad = NoPad
  /\ ResolveIdle
  /\ AnglesIdle
  /\ variant \in Variants
  /\ loadModel = "pending"
  /\ inputs \in [Views -> IF variant \in Disabling THEN {"none", "sample"} ELSE {"none"}]
  /\ disabled \in (IF variant \in Disabling THEN BOOLEAN ELSE {FALSE})
  /\ runs = <<>>
  /\ textContent = "Run"
  /\ previewLoads \in (IF variant \in Listening
                       THEN SUBSET {v \in Views : inputs[v] = "sample"}
                       ELSE {{}})
  /\ FunctionsIdle

\* createDetector resolves: detector is set; the second script updates the
\* button, the third enables it
LoadModelResolves ==
  /\ loadModel = "pending"
  /\ loadModel' = "resolved"
  /\ disabled' = CASE variant = "A2" -> updateRunButtonState(TRUE, inputs)
                   [] variant = "A3" -> FALSE
                   [] OTHER -> disabled
  /\ UNCHANGED <<lbVars, rsVars, anVars, fnVars, variant, inputs, runs, textContent, previewLoads>>

\* createDetector rejects: detector stays unset
LoadModelRejects ==
  /\ loadModel = "pending"
  /\ loadModel' = "rejected"
  /\ UNCHANGED <<lbVars, rsVars, anVars, fnVars, variant, inputs, disabled, runs,
               textContent, previewLoads>>

\* the change listener of a file input
SelectFile ==
  /\ \E v \in Views :
       /\ inputs[v] # "file"
       /\ inputs' = [inputs EXCEPT ![v] = "file"]
       /\ previewLoads' = IF variant \in Listening THEN previewLoads \cup {v} ELSE previewLoads
  /\ disabled' = IF variant \in Disabling
                 THEN updateRunButtonState(detectorSet, inputs')
                 ELSE disabled
  /\ UNCHANGED <<lbVars, rsVars, anVars, fnVars, variant, loadModel, runs, textContent>>

\* the timers of app.js: every 700 ms updateRunButtonState (second script), every
\* 800 ms updateRunState once detector is set (third script)
TimerTick ==
  /\ variant \in Disabling
  /\ variant = "A3" => detectorSet
  /\ disabled' = updateRunButtonState(detectorSet, inputs)
  /\ disabled' # disabled
  /\ UNCHANGED <<lbVars, rsVars, anVars, fnVars, variant, loadModel, inputs, runs,
               textContent, previewLoads>>

\* second script of app.js: the load event of a preview image calls
\* updateRunButtonState
PreviewLoaded ==
  /\ \E v \in previewLoads : previewLoads' = previewLoads \ {v}
  /\ disabled' = updateRunButtonState(detectorSet, inputs)
  /\ UNCHANGED <<lbVars, rsVars, anVars, fnVars, variant, loadModel, inputs, runs, textContent>>

\* a click on the enabled button
Click ==
  /\ ~disabled
  /\ Len(runs) < MaxRuns
  /\ LET run == OnClick(NewRun)
     IN /\ runs' = Append(runs, run)
        /\ disabled' = DisabledAfter(run)
        /\ textContent' = TextAfter(run)
  /\ UNCHANGED <<lbVars, rsVars, anVars, fnVars, variant, loadModel, inputs, previewLoads>>

\* the image of the view in work has loaded or decoded: the canvas is padded
\* and estimatePoses is called
ImageLoaded ==
  \E r \in 1..Len(runs) :
    /\ runs[r].pc \in {"imgFront", "imgSide"}
    /\ LET run == estimatePoses(runs[r], IF runs[r].pc = "imgFront" THEN "front" ELSE "side")
       IN /\ runs' = [runs EXCEPT ![r] = run]
          /\ disabled' = DisabledAfter(run)
          /\ textContent' = TextAfter(run)
    /\ UNCHANGED <<lbVars, rsVars, anVars, fnVars, variant, loadModel, inputs, previewLoads>>

\* the handler after the decode of the image of view v was rejected: the second
\* script of app.js ignores it in ensureImageDecoded, the third catches it
OnDecodeError(run, v) ==
  IF variant = "A2" THEN estimatePoses(run, v) ELSE End(run, "caught")

\* second and third script of app.js: img.decode() rejects
ImageFails ==
  \E r \in 1..Len(runs) :
    /\ variant \in Disabling
    /\ runs[r].pc \in {"imgFront", "imgSide"}
    /\ LET run == OnDecodeError(runs[r], IF runs[r].pc = "imgFront" THEN "front" ELSE "side")
       IN /\ runs' = [runs EXCEPT ![r] = run]
          /\ disabled' = DisabledAfter(run)
          /\ textContent' = TextAfter(run)
    /\ UNCHANGED <<lbVars, rsVars, anVars, fnVars, variant, loadModel, inputs, previewLoads>>

\* part_000 first script: frontImg.onload assigns sideImg.onload; a side image
\* that loaded before has no listener to call
FrontImageLoaded ==
  \E r \in 1..Len(runs) :
    /\ runs[r].pc = "loads"
    /\ "front" \notin runs[r].loaded
    /\ runs' = [runs EXCEPT ![r].loaded = @ \cup {"front"},
                            ![r].pc = IF "side" \in runs[r].loaded THEN "orphaned" ELSE "loads"]
    /\ UNCHANGED <<lbVars, rsVars, anVars, fnVars, variant, loadModel, inputs, disabled,
                 textContent, previewLoads>>

\* part_000 first script: the side image loads; its listener, when assigned,
\* pads the front image and calls estimatePoses
SideImageLoaded ==
  \E r \in 1..Len(runs) :
    /\ runs[r].pc = "loads"
    /\ "side" \notin runs[r].loaded
    /\ LET seen == [runs[r] EXCEPT !.loaded = @ \cup {"side"}]
       IN runs' = [runs EXCEPT ![r] = IF "front" \in runs[r].loaded
                                      THEN estimatePoses(seen, "front")
                                      ELSE seen]
    /\ UNCHANGED <<lbVars, rsVars, anVars, fnVars, variant, loadModel, inputs, disabled,
                 textContent, previewLoads>>

\* estimatePoses returns for the view in work, with a pose or with none
DetectionReturns ==
  \E r \in 1..Len(runs), pose \in BOOLEAN :
    /\ runs[r].pc \in {"detFront", "detSide"}
    /\ LET run == OnDetection(runs[r], IF runs[r].pc = "detFront" THEN "front" ELSE "side", pose)
       IN /\ runs' = [runs EXCEPT ![r] = run]
          /\ disabled' = DisabledAfter(run)
          /\ textContent' = TextAfter(run)
    /\ UNCHANGED <<lbVars, rsVars, anVars, fnVars, variant, loadModel, inputs, previewLoads>>

\* second and third script of app.js: estimatePoses rejects, the catch block
\* alerts and the finally block runs
DetectionRejects ==
  \E r \in 1..Len(runs) :
    /\ variant \in Disabling
    /\ runs[r].pc \in {"detFront", "detSide"}
    /\ LET run == End(runs[r], "caught")
       IN /\ runs' = [runs EXCEPT ![r] = run]
          /\ disabled' = DisabledAfter(run)
          /\ textContent' = TextAfter(run)
    /\ UNCHANGED <<lbVars, rsVars, anVars, fnVars, variant, loadModel, inputs, previewLoads>>

RunNext ==
  \/ LoadModelResolves
  \/ LoadModelRejects
  \/ SelectFile
  \/ TimerTick
  \/ Click
  \/ ImageLoaded
  \/ FrontImageLoaded
  \/ SideImageLoaded
  \/ DetectionReturns
  \/ PreviewLoaded
  \/ ImageFails
  \/ DetectionRejects

SpecRun == RunInit /\ [][RunNext]_vars

\* the handlers that need both views
TwoViewVariants == {"A1", "P0a", "P0b", "P1"}

\* C8: in every run of a two-view handler the angle/proportion/merge computation
\* has started only if detection has completed for the front and the side view
C8_JoinBeforeMetrics ==
  variant \in TwoViewVariants =>
    \A r \in 1..Len(runs) : runs[r].metrics => runs[r].done = Views

\* C8 witness: a run of the nested-onload handler whose images loaded front
\* first, both detections completed, and the metrics started
C8_Witness ==
  /\ variant = "P0a"
  /\ \E r \in 1..Len(runs) :
       runs[r].metrics /\ runs[r].done = Views /\ runs[r].loaded = Views

\* C9: estimatePoses has been invoked only with the detector created, and a run
\* whose click came while the detector was not ready has made no detection call
C9_DetectorReadiness ==
  \A r \in 1..Len(runs) :
    /\ runs[r].called # {} => detectorSet
    /\ ~runs[r].readyAtClick => runs[r].called = {}

\* C10: a run of a two-view handler clicked with the front file, the side file or
\* both absent has made no estimatePoses call and, once returned, has reported
\* the missing input (or the model as not loaded)
C10_MissingInput ==
  variant \in TwoViewVariants =>
    \A r \in 1..Len(runs) :
      ~bothFiles(runs[r]) =>
        /\ runs[r].called = {}
        /\ runs[r].pc = "end" => runs[r].outcome \in {"missingInput", "notReady"}

\* a returned run in which the detector gave a pose for exactly one view
OneViewWithoutPose(run) ==
  run.pc = "end" /\ run.done = Views /\ Cardinality(run.found) = 1

\* C11: in the second script of app.js, the first script of part_000 and part_001,
\* a run in which the detector returned no pose for one view and a pose for the
\* other does not throw or abort: it ends with the report, and the metrics of the
\* view that succeeded are computed
C11_NoDetection ==
  variant \in {"A2", "P0a", "P1"} =>
    \A r \in 1..Len(runs) :
      OneViewWithoutPose(runs[r]) => (runs[r].outcome = "report" /\ runs[r].metrics)

\* C24: in the third script of app.js the Run button is enabled only if the
\* detector is loaded and at least one image (a chosen file or a preview src) is
\* present: no step of the page (model-load completion, file-input change, the
\* finally block, the updateRunState tick) takes the button from disabled to
\* enabled with the detector not loaded or with no image present
C24_RunButtonEnabling ==
  [][(variant = "A3" /\ disabled /\ ~disabled') => (detectorSet /\ hasPreview)']_vars

\* a run of the second script of app.js between runBtn.disabled = true and its
\* finally block
Awaiting(run) == run.outcome # "notReady" /\ run.pc # "end"

\* C25: in the second script of app.js the Run button is disabled while a run
\* awaits image decode or detection, in every interleaving with the 700 ms timer,
\* the file-input change events and the preview load events, so no two runs are
\* in progress together
C25_NoOverlappingRuns ==
  variant = "A2" =>
    /\ \A r \in 1..Len(runs) : Awaiting(runs[r]) => disabled
    /\ \A r1, r2 \in 1..Len(runs) : Awaiting(runs[r1]) /\ Awaiting(runs[r2]) => r1 = r2

(***************************************************************************)
(* The run handlers with the events they wait for delivered: an image that *)
(* is being decoded or loaded settles, and so does a call of estimatePoses. *)
(* The browser gives no such guarantee for clicks, file choices or the     *)
(* model download, and the timers are left without it as well.             *)
(***************************************************************************)
RunFairness ==
  /\ WF_vars(ImageLoaded \/ ImageFails)
  /\ WF_vars(DetectionReturns \/ DetectionRejects)
  /\ WF_vars(FrontImageLoaded)
  /\ WF_vars(SideImageLoaded)

SpecRunFair == RunInit /\ [][RunNext]_vars /\ RunFairness

\* run r of the second or third script of app.js has passed the detector guard
PastGuards(r) ==
  variant \in Disabling /\ r <= Len(runs) /\ runs[r].outcome # "notReady"

\* run r has returned
Ended(r) == r <= Len(runs) /\ runs[r].pc = "end"

\* run r has returned and the button is enabled and labelled 'Run'
Restored(r) == Ended(r) /\ ~disabled /\ textContent = "Run"

\* a step in which a run that passed the guards returns leaves the button enabled
\* and labelled 'Run'
EndsRestored ==
  \A r \in 1..MaxRuns :
    (PastGuards(r))' /\ (Ended(r))' /\ ~Ended(r) => (~disabled /\ textContent = "Run")'

\* C26: in the second and third script of app.js every run that passed the
\* guards, with its decode and detector calls settling, eventually ends, and the
\* step in which it ends leaves the Run button enabled and labelled 'Run'
C26_RunCompletion ==
  /\ \A r \in 1..MaxRuns : PastGuards(r) ~> Ended(r)
  /\ [][EndsRestored]_vars

\* C26 witness: a run of the third script whose decode or detector call was
\* rejected has ended in the catch block, and one of the second script has ended
\* with its report, each with the button enabled and labelled 'Run'
C26_Witness ==
  \E r \in 1..Len(runs) :
    /\ PastGuards(r) /\ Restored(r)
    /\ \/ variant = "A3" /\ runs[r].outcome = "caught"
       \/ variant = "A2" /\ runs[r].outcome = "report" /\ runs[r].done # {}

\* run r of the first script of part_000 was clicked with the detector loaded and
\* both files chosen, and waits for the load events of its two images
Loading(r) == variant = "P0a" /\ r <= Len(runs) /\ runs[r].pc = "loads"

\* run r has written the table and the angles to #results, or a detection of it
\* has returned without a pose
Written(r) == r <= Len(runs) /\ runs[r].outcome \in {"report", "threw"}

\* C27: in the first script of part_000 a run clicked with both files chosen and
\* the detector loaded, whose images load in either order and whose detections
\* return a pose, eventually writes the results table and the joint angles
C27_NestedOnloadLiveness ==
  \A r \in 1..MaxRuns : Loading(r) ~> Written(r)

(***************************************************************************)
(* Specification of the angle functions: three points, or none in the      *)
(* place of a point, and each angle function applied to them               *)
(***************************************************************************)
MaxGrid == 3

\* a point of the canvas on a grid of 50 px
GridPoint(gx, gy) == [x |-> gx * 50 * Unit, y |-> gy * 50 * Unit]
GridPoints == {GridPoint(gx, gy) : gx \in 0..MaxGrid, gy \in 0..MaxGrid}

Returned(fn, value) == [by |-> fn, value |-> value, threw |-> FALSE]
\* a TypeError from reading x of undefined
Threw(fn) == [by |-> fn, value |-> Null, threw |-> TRUE]

\* app.js (second and third script): null for a missing point and for a vector
\* shorter than 1e-6, which on this grid is a vector of length 0
computeAngle(A, B, C) ==
  IF A = NoPoint \/ B = NoPoint \/ C = NoPoint THEN Null
  ELSE IF ZeroLength(A, B) \/ ZeroLength(C, B) THEN Null
  ELSE acos(clamp(Quotient(A.x - B.x, A.y - B.y, C.x - B.x, C.y - B.y)))

\* part_000 (first script): acos(dot / (mag1 * mag2 + 1e-6)), toFixed(2). The
\* 1e-6 keeps the quotient within (-1, 1) and moves the angle by less than the
\* two decimals kept; with a vector of length 0 the quotient is 0 / 1e-6 = 0
angle3(a, b, c) ==
  IF ZeroLength(a, b) \/ ZeroLength(c, b) THEN Degrees(90)
  ELSE acos(clamp(Quotient(a.x - b.x, a.y - b.y, c.x - b.x, c.y - b.y)))

\* part_000 (second script): acos(dot / mag) with no test and no clamp
angleP0b(A, B, C) ==
  IF ZeroLength(A, B) \/ ZeroLength(C, B) THEN NaN
  ELSE acos(Quotient(A.x - B.x, A.y - B.y, C.x - B.x, C.y - B.y))

\* app.js (first script): acos(dot / (mag1 * mag2)) with no test and no clamp
angleA1(a, b, c) ==
  IF ZeroLength(a, b) \/ ZeroLength(c, b) THEN NaN
  ELSE acos(Quotient(a.x - b.x, a.y - b.y, c.x - b.x, c.y - b.y))

AllPresent(pts) == pts.A # NoPoint /\ pts.B # NoPoint /\ pts.C # NoPoint

FnInit ==
  /\ img = [width |-> CANVAS_SIZE, height |-> CANVAS_SIZE]
  /\ pad = NoPad
  /\ ResolveIdle
  /\ AnglesIdle
  /\ RunIdle
  /\ overshoot \in BOOLEAN
  /\ transform = NoTransform
  /\ points \in [A : GridPoints \cup {NoPoint}, B : GridPoints \cup {NoPoint},
                 C : GridPoints \cup {NoPoint}]
  /\ posePair = NoPoses
  /\ result = NoResult

CallAngleAtB ==
  /\ result = NoResult
  /\ result' = IF AllPresent(points)
               THEN Returned("angleAtB", angleAtB(points.A, points.B, points.C))
               ELSE Threw("angleAtB")
  /\ UNCHANGED <<lbVars, rsVars, anVars, runVars, overshoot, points, posePair, transform>>

CallComputeAngle ==
  /\ result = NoResult
  /\ result' = Returned("computeAngle", computeAngle(points.A, points.B, points.C))
  /\ UNCHANGED <<lbVars, rsVars, anVars, runVars, overshoot, points, posePair, transform>>

CallAngle3 ==
  /\ result = NoResult
  /\ result' = IF AllPresent(points)
               THEN Returned("angle3", angle3(points.A, points.B, points.C))
               ELSE Threw("angle3")
  /\ UNCHANGED <<lbVars, rsVars, anVars, runVars, overshoot, points, posePair, transform>>

CallAngleP0b ==
  /\ result = NoResult
  /\ result' = IF AllPresent(points)
               THEN Returned("angleP0b", angleP0b(points.A, points.B, points.C))
               ELSE Threw("angleP0b")
  /\ UNCHANGED <<lbVars, rsVars, anVars, runVars, overshoot, points, posePair, transform>>

CallAngleA1 ==
  /\ result = NoResult
  /\ result' = IF AllPresent(points)
               THEN Returned("angleA1", angleA1(points.A, points.B, points.C))
               ELSE Threw("angleA1")
  /\ UNCHANGED <<lbVars, rsVars, anVars, runVars, overshoot, points, posePair, transform>>

FnNext ==
  \/ CallAngleAtB
  \/ CallComputeAngle
  \/ CallAngle3
  \/ CallAngleP0b
  \/ CallAngleA1

SpecAngleAt == FnInit /\ [][FnNext]_vars

\* the points given are three points with A = B or C = B
Degenerate == AllPresent(points) /\ (ZeroLength(points.A, points.B) \/ ZeroLength(points.C, points.B))

\* C12: for points with A = B or C = B, computeAngle and angleAtB return null:
\* they do not throw and the value is neither NaN nor a number
C12_AngleDegeneracy ==
  (result.by \in {"computeAngle", "angleAtB"} /\ Degenerate) =>
    (~result.threw /\ result.value = Null)

\* C12 witness: angleAtB returned null for A = B with C elsewhere
C12_Witness ==
  /\ result.by = "angleAtB"
  /\ AllPresent(points)
  /\ ZeroLength(points.A, points.B)
  /\ ~ZeroLength(points.C, points.B)
  /\ result.value = Null

\* C14: for points with A # B and C # B, computeAngle and angleAtB return a
\* number of degrees in [0, 180]
C14_AngleRange ==
  (result.by \in {"computeAngle", "angleAtB"} /\ AllPresent(points) /\ ~Degenerate) =>
    /\ ~result.threw
    /\ \E d \in 0..180 : result.value = Degrees(d)

\* C14 witness: computeAngle returned 180 for B between A and C on one line, on a
\* platform where the quotient of such vectors comes out below -1
C14_Witness ==
  /\ result.by = "computeAngle"
  /\ overshoot
  /\ AllPresent(points)
  /\ points.A = GridPoint(0, 0) /\ points.B = GridPoint(1, 1) /\ points.C = GridPoint(3, 3)
  /\ result.value = Degrees(180)

(***************************************************************************)
(* Specification of the metrics: a keypoint array for each view, complete  *)
(* or with keypoints missing, and each metric function applied to them     *)
(***************************************************************************)
\* every keypoint on one point
Point ==
  [i \in 1..17 |-> <<4, 4>>]

\* as Standing, the hips wider than the shoulders and the wrists and ankles apart
Leaning ==
  << <<4, 0>>, <<5, 0>>, <<3, 0>>, <<6, 0>>, <<2, 0>>, <<5, 1>>, <<3, 1>>, <<6, 2>>, <<2, 2>>,
     <<7, 3>>, <<2, 4>>, <<6, 4>>, <<2, 4>>, <<6, 6>>, <<2, 6>>, <<8, 8>>, <<2, 8>> >>

\* the scores of a pose by index, of four decimals as processFileToCanvas
\* leaves them: one score for all, or rising or falling by 0.04 per keypoint;
\* rising and falling meet at index 9
Patterns == {"high", "rising", "falling"}
ScoreAt(pattern, i) ==
  CASE pattern = "high" -> 90000
    [] pattern = "rising" -> 20000 + 4000 * i
    [] pattern = "falling" -> 92000 - 4000 * i

\* what is missing of a pose: the array is cut after kept entries, and the
\* entry at hole (if any) is undefined
Complete == [kept |-> 17, hole |-> 0]
Missings == {Complete, [kept |-> 15, hole |-> 0], [kept |-> 17, hole |-> 10]}

MetricPose(shape, pattern, missing) ==
  [i \in 1..missing.kept |->
     IF i = missing.hole THEN NoPoint
     ELSE [x |-> GridCoord(shape[i][1], FALSE),
           y |-> GridCoord(shape[i][2], FALSE),
           score |-> ScoreAt(pattern, i),
           name |-> KP_NAMES[i]]]

MetricPoses ==
  {MetricPose(shape, pattern, missing) :
     shape \in {Standing, Collapsed, Profile, Leaning, Point}, pattern \in Patterns,
     missing \in Missings}

IsComplete(kps) == Len(kps) = 17 /\ \A i \in 1..17 : Present(kps, i)

\* the gate of part_000's safe
MinScore == 3 * (ScoreUnit \div 10)

\* part_000 (first script): the four joints by position in the array; angle3
\* reads a.x, so a keypoint that is missing throws
JointsP0a ==
  << [joint |-> "leftElbow",  triple |-> <<6, 8, 10>>],
     [joint |-> "rightElbow", triple |-> <<7, 9, 11>>],
     [joint |-> "leftKnee",   triple |-> <<12, 14, 16>>],
     [joint |-> "rightKnee",  triple |-> <<13, 15, 17>>] >>

computeAnglesP0a(kp) ==
  IF \E j \in 1..Len(JointsP0a), k \in 1..3 : ~Present(kp, JointsP0a[j].triple[k])
  THEN Threw("computeAnglesP0a")
  ELSE Returned("computeAnglesP0a",
         [j \in 1..Len(JointsP0a) |->
            LET t == JointsP0a[j].triple
            IN [joint |-> JointsP0a[j].joint, triple |-> t,
                angle |-> angle3(kp[t[1]], kp[t[2]], kp[t[3]])]])

\* part_000 (second script): the five joints by name
JointsP0b ==
  << [joint |-> "leftElbow",  triple |-> <<"left_shoulder", "left_elbow", "left_wrist">>],
     [joint |-> "rightElbow", triple |-> <<"right_shoulder", "right_elbow", "right_wrist">>],
     [joint |-> "leftKnee",   triple |-> <<"left_hip", "left_knee", "left_ankle">>],
     [joint |-> "rightKnee",  triple |-> <<"right_hip", "right_knee", "right_ankle">>],
     [joint |-> "pelvis",     triple |-> <<"left_shoulder", "left_hip", "right_hip">>] >>

\* kps.findIndex(p => p.name === name), counted from 1: 0 when no entry has the
\* name
findIndex(kps, name) ==
  IF \E i \in 1..Len(kps) : Present(kps, i) /\ kps[i].name = name
  THEN CHOOSE i \in 1..Len(kps) :
         /\ Present(kps, i) /\ kps[i].name = name
         /\ \A j \in 1..(i - 1) : ~(Present(kps, j) /\ kps[j].name = name)
  ELSE 0

\* findIndex reads p.name of every entry up to the one found: an undefined
\* entry on the way throws
findIndexThrows(kps, name) ==
  LET found == findIndex(kps, name)
      last == IF found = 0 THEN Len(kps) ELSE found
  IN \E j \in 1..last : kps[j] = NoPoint

\* safe(a, b, c) of computeAngles: null for a keypoint that is missing or scores
\* below 0.3, else angle(a, b, c).toFixed(1)
safe(kps, a, b, c) ==
  IF a = 0 \/ b = 0 \/ c = 0 THEN Null
  ELSE IF kps[a].score < MinScore \/ kps[b].score < MinScore \/ kps[c].score < MinScore
       THEN Null
  ELSE angleP0b(kps[a], kps[b], kps[c])

computeAnglesP0b(kps) ==
  IF \E j \in 1..Len(JointsP0b), k \in 1..3 : findIndexThrows(kps, JointsP0b[j].triple[k])
  THEN Threw("computeAnglesP0b")
  ELSE Returned("computeAnglesP0b",
         [j \in 1..Len(JointsP0b) |->
            LET t == JointsP0b[j].triple
                ix == [k \in 1..3 |-> findIndex(kps, t[k])]
            IN [joint |-> JointsP0b[j].joint, triple |-> ix,
                angle |-> safe(kps, ix[1], ix[2], ix[3])]])

\* pickBestByJoint taking the front keypoint only when it scores strictly higher
pickBestByJointStrict(front, side) ==
  [i \in 1..Len(front) |-> IF front[i].score > side[i].score THEN front[i] ELSE side[i]]

\* part_000 (second script): per index the keypoint of the higher score, the
\* front one on a tie
pickBestByJoint(front, side) ==
  [i \in 1..Len(front) |-> IF front[i].score >= side[i].score THEN front[i] ELSE side[i]]

\* front[i].score or side[i].score read of undefined
pickBestByJointThrows(front, side) ==
  \E i \in 1..Len(front) : ~Present(front, i) \/ ~Present(side, i)

\* lengths in 1/DistUnit px: the four decimals of toFixed(4) and one more to
\* round from
DistUnit == 100000

RECURSIVE ISqrtIn(_, _, _)
ISqrtIn(n, lo, hi) ==
  IF lo = hi THEN lo
  ELSE LET mid == (lo + hi + 1) \div 2
       IN IF mid * mid <= n THEN ISqrtIn(n, mid, hi) ELSE ISqrtIn(n, lo, mid - 1)
\* floor(sqrt(n))
ISqrt(n) == ISqrtIn(n, 0, Min(n, 46340))

\* k more decimal digits of a square root r with remainder rem
RECURSIVE SqrtDigits(_, _, _)
SqrtDigits(r, rem, k) ==
  IF k = 0 THEN r
  ELSE LET d == CHOOSE d \in 0..9 :
                  /\ (20 * r + d) * d <= 100 * rem
                  /\ d < 9 => (20 * r + d + 1) * (d + 1) > 100 * rem
       IN SqrtDigits(10 * r + d, 100 * rem - (20 * r + d) * d, k - 1)

\* Math.hypot(dx, dy) and Math.sqrt(dx**2 + dy**2) for dx and dy of whole px, the
\* decimals after the fifth dropped
hypot(dx, dy) ==
  LET px == Abs(dx) \div Unit
      py == Abs(dy) \div Unit
      n == px * px + py * py
      r == ISqrt(n)
  IN SqrtDigits(r, n - r * r, 5)

dist(a, b) == hypot(a.x - b.x, a.y - b.y)

\* a length as a function returns it
Pixels(v) == <<v>>

\* (d1 + d2) / 2 rounded to a multiple of step
MeanRounded(d1, d2, step) == ((d1 + d2 + step) \div (2 * step)) * step

\* Number(((d1 + d2) / 2).toFixed(4)), or null for 0
meanOrNull(d1, d2) ==
  IF d1 + d2 = 0 THEN Null ELSE Pixels(MeanRounded(d1, d2, DistUnit \div 10000))

\* ((d1 + d2) / 2).toFixed(1): the string of the mean rounded to a tenth of a
\* px, carried as that number
meanFixed1(d1, d2) ==
  Pixels(MeanRounded(d1, d2, DistUnit \div 10))

midpoint(a, b) == [x |-> (a.x + b.x) \div 2, y |-> (a.y + b.y) \div 2]

\* the keypoints the proportions use
ProportionNames ==
  {"left_shoulder", "right_shoulder", "left_hip", "right_hip",
   "left_wrist", "right_wrist", "left_ankle", "right_ankle"}

\* part_001: arm and leg the mean over the two sides, torso between the
\* midpoints; dist reads a.x, so a keypoint that is missing throws
computeProportions(kps) ==
  IF \E name \in ProportionNames : ~Present(kps, idx(name))
  THEN Threw("computeProportions")
  ELSE LET leftShoulder == kps[idx("left_shoulder")]
           rightShoulder == kps[idx("right_shoulder")]
           leftHip == kps[idx("left_hip")]
           rightHip == kps[idx("right_hip")]
           leftWrist == kps[idx("left_wrist")]
           rightWrist == kps[idx("right_wrist")]
           leftAnkle == kps[idx("left_ankle")]
           rightAnkle == kps[idx("right_ankle")]
       IN Returned("computeProportions",
            [arm |-> meanOrNull(dist(leftShoulder, leftWrist), dist(rightShoulder, rightWrist)),
             leg |-> meanOrNull(dist(leftHip, leftAnkle), dist(rightHip, rightAnkle)),
             torso |-> LET t == dist(midpoint(leftShoulder, rightShoulder),
                                     midpoint(leftHip, rightHip))
                       IN meanOrNull(t, t)])

\* part_000 (second script): the keypoints by name; arm and leg the mean over the
\* two sides, torso from the left shoulder to the left hip
proportions(kps) ==
  IF \E name \in ProportionNames : findIndexThrows(kps, name) \/ findIndex(kps, name) = 0
  THEN Threw("proportions")
  ELSE LET at(name) == kps[findIndex(kps, name)]
           lArm == dist(at("left_shoulder"), at("left_wrist"))
           rArm == dist(at("right_shoulder"), at("right_wrist"))
           lLeg == dist(at("left_hip"), at("left_ankle"))
           rLeg == dist(at("right_hip"), at("right_ankle"))
           torso == dist(at("left_shoulder"), at("left_hip"))
       IN Returned("proportions",
            [arm |-> meanFixed1(lArm, rArm),
             leg |-> meanFixed1(lLeg, rLeg),
             torso |-> meanFixed1(torso, torso)])

\* the quotient num / den of two integers, den > 0, in lowest terms
Fraction(num, den) ==
  LET g == GCD(Abs(num), den)
  IN [num |-> IF num < 0 THEN 0 - (Abs(num) \div g) ELSE num \div g, den |-> den \div g]

RECURSIVE Pow10(_)
Pow10(e) == IF e = 0 THEN 1 ELSE 10 * Pow10(e - 1)

\* Number(v.toPrecision(4)) for a quotient v below 1 in magnitude: four
\* significant digits, as mant / 10^exp
toPrecision4(v) ==
  IF v.num = 0 THEN [sign |-> 1, mant |-> 0, exp |-> 0]
  ELSE LET n == Abs(v.num)
           e == CHOOSE e \in 3..9 :
                  /\ n * Pow10(e) >= 1000 * v.den
                  /\ n * Pow10(e - 1) < 1000 * v.den
           m == (2 * n * Pow10(e) + v.den) \div (2 * v.den)
       IN [sign |-> IF v.num < 0 THEN -1 ELSE 1,
           mant |-> IF m = 10000 THEN 1000 ELSE m,
           exp |-> IF m = 10000 THEN e - 1 ELSE e]

RECURSIVE MinOver(_, _, _)
MinOver(kps, field, i) ==
  IF i = 1 THEN kps[1][field] ELSE Min(kps[i][field], MinOver(kps, field, i - 1))
RECURSIVE MaxOver(_, _, _)
MaxOver(kps, field, i) ==
  IF i = 1 THEN kps[1][field] ELSE Max(kps[i][field], MaxOver(kps, field, i - 1))

\* the bounding box of the points of an array without undefined entries
Box(kps) ==
  [minX |-> MinOver(kps, "x", Len(kps)), maxX |-> MaxOver(kps, "x", Len(kps)),
   minY |-> MinOver(kps, "y", Len(kps)), maxY |-> MaxOver(kps, "y", Len(kps))]

\* kps.map(k => k.x) reads x of undefined
mapThrows(kps) == \E i \in 1..Len(kps) : kps[i] = NoPoint

\* normalizePose dividing by the side of the canvas in the place of the longer
\* side of the bounding box
normalizePoseByCanvas(kps) ==
  IF mapThrows(kps) THEN Threw("normalizePose")
  ELSE LET b == Box(kps)
       IN Returned("normalizePose",
            [i \in 1..Len(kps) |->
               [name |-> kps[i].name,
                nx |-> toPrecision4(Fraction(2 * kps[i].x - (b.minX + b.maxX), 2 * CANVAS_SIZE * Unit)),
                ny |-> toPrecision4(Fraction(2 * kps[i].y - (b.minY + b.maxY), 2 * CANVAS_SIZE * Unit)),
                score |-> toPrecision4(Fraction(kps[i].score, ScoreUnit))]])

\* part_001: centre of the bounding box to (0, 0), the longer side to 1, a side
\* of 0 taken as 1 px; coordinates and score to four significant digits
normalizePose(kps) ==
  IF mapThrows(kps) THEN Threw("normalizePose")
  ELSE LET b == Box(kps)
           longer == Max(b.maxX - b.minX, b.maxY - b.minY)
           scale == IF longer = 0 THEN Unit ELSE longer
       IN Returned("normalizePose",
            [i \in 1..Len(kps) |->
               [name |-> kps[i].name,
                nx |-> toPrecision4(Fraction(2 * kps[i].x - (b.minX + b.maxX), 2 * scale)),
                ny |-> toPrecision4(Fraction(2 * kps[i].y - (b.minY + b.maxY), 2 * scale)),
                score |-> toPrecision4(Fraction(kps[i].score, ScoreUnit))]])

\* (p - c) / scale as part_000 divides: 0 / 0 is NaN, carried as 0 over 0, and
\* any other number over 0 is an infinity, carried as 1 or -1 over 0
divide(num, den) ==
  IF den = 0 THEN [num |-> IF num = 0 THEN 0 ELSE IF num < 0 THEN -1 ELSE 1, den |-> 0]
  ELSE Fraction(num, den)

\* part_000 (second script): as normalizePose, the longer side as it is
normalize(kps) ==
  IF mapThrows(kps) THEN Threw("normalize")
  ELSE LET b == Box(kps)
           scale == Max(b.maxX - b.minX, b.maxY - b.minY)
       IN Returned("normalize",
            [i \in 1..Len(kps) |->
               [name |-> kps[i].name, x |-> kps[i].x, y |-> kps[i].y, score |-> kps[i].score,
                nx |-> divide(2 * kps[i].x - (b.minX + b.maxX), 2 * scale),
                ny |-> divide(2 * kps[i].y - (b.minY + b.maxY), 2 * scale)]])

MtInit ==
  /\ img = [width |-> CANVAS_SIZE, height |-> CANVAS_SIZE]
  /\ pad = NoPad
  /\ ResolveIdle
  /\ AnglesIdle
  /\ RunIdle
  /\ overshoot \in BOOLEAN
  /\ points = NoPoints
  /\ transform = NoTransform
  /\ posePair \in [front : MetricPoses, side : MetricPoses]
  /\ result = NoResult

CallComputeAnglesP0a ==
  /\ result = NoResult
  /\ result' = computeAnglesP0a(posePair.front)
  /\ UNCHANGED <<lbVars, rsVars, anVars, runVars, overshoot, points, posePair, transform>>

CallComputeAnglesP0b ==
  /\ result = NoResult
  /\ result' = computeAnglesP0b(posePair.front)
  /\ UNCHANGED <<lbVars, rsVars, anVars, runVars, overshoot, points, posePair, transform>>

CallComputeAnglesFromKPs ==
  /\ result = NoResult
  /\ result' = Returned("computeAnglesFromKPs", computeAnglesFromKPs(posePair.front))
  /\ UNCHANGED <<lbVars, rsVars, anVars, runVars, overshoot, points, posePair, transform>>

CallPickBestByJoint ==
  /\ result = NoResult
  /\ result' = IF pickBestByJointThrows(posePair.front, posePair.side)
               THEN Threw("pickBestByJoint")
               ELSE Returned("pickBestByJoint", pickBestByJoint(posePair.front, posePair.side))
  /\ UNCHANGED <<lbVars, rsVars, anVars, runVars, overshoot, points, posePair, transform>>

CallComputeProportions ==
  /\ result = NoResult
  /\ result' = computeProportions(posePair.front)
  /\ UNCHANGED <<lbVars, rsVars, anVars, runVars, overshoot, points, posePair, transform>>

CallProportions ==
  /\ result = NoResult
  /\ result' = proportions(posePair.front)
  /\ UNCHANGED <<lbVars, rsVars, anVars, runVars, overshoot, points, posePair, transform>>

CallNormalizePose ==
  /\ result = NoResult
  /\ result' = normalizePose(posePair.front)
  /\ UNCHANGED <<lbVars, rsVars, anVars, runVars, overshoot, points, posePair, transform>>

CallNormalize ==
  /\ result = NoResult
  /\ result' = normalize(posePair.front)
  /\ UNCHANGED <<lbVars, rsVars, anVars, runVars, overshoot, points, posePair, transform>>

MtNext ==
  \/ CallNormalizePose
  \/ CallNormalize
  \/ CallComputeProportions
  \/ CallProportions
  \/ CallPickBestByJoint
  \/ CallComputeAnglesFromKPs
  \/ CallComputeAnglesP0a
  \/ CallComputeAnglesP0b

SpecMetrics == MtInit /\ [][MtNext]_vars

\* the three keypoints of a joint are there and score 0.3 or more, and the
\* vertex is on one of its neighbours
DegenerateJoint(kps, t) ==
  /\ \A k \in 1..3 : Present(kps, t[k]) /\ kps[t[k]].score >= MinScore
  /\ ZeroLength(kps[t[1]], kps[t[2]]) \/ ZeroLength(kps[t[3]], kps[t[2]])

\* C13: in a pose of 17 keypoints, a joint whose vertex coincides with one of its
\* neighbours while all three scores pass 0.3 is reported as null by both
\* computeAngles of part_000
C13_DegenerateGeometry ==
  (result.by \in {"computeAnglesP0a", "computeAnglesP0b"} /\ IsComplete(posePair.front)) =>
    /\ ~result.threw
    /\ \A j \in 1..Len(result.value) :
         DegenerateJoint(posePair.front, result.value[j].triple) =>
           result.value[j].angle = Null

\* the keypoints of a label, as indexes of the array
Indexes(label) == [k \in 1..3 |-> idx(Triple(label)[k])]
AllThree(kps, label) == \A k \in 1..3 : Present(kps, Indexes(label)[k])

\* C15: computeAnglesFromKPs does not throw; a label with a keypoint missing from
\* the array gets angle null and conf 0, and every other label gets the angle of
\* its three keypoints (null only where a segment has length 0)
C15_MissingKeypoint ==
  result.by = "computeAnglesFromKPs" =>
    /\ ~result.threw
    /\ DOMAIN result.value = Labels
    /\ \A label \in Labels :
         IF AllThree(posePair.front, label)
         THEN LET t == Indexes(label)
                  kps == posePair.front
              IN IF ZeroLength(kps[t[1]], kps[t[2]]) \/ ZeroLength(kps[t[3]], kps[t[2]])
                 THEN result.value[label].angle = Null
                 ELSE \E d \in 0..180 : result.value[label].angle = Degrees(d)
         ELSE result.value[label] = [angle |-> Null, conf |-> 0]

\* C15 witness: the left wrist is undefined in an array of 17; the left elbow
\* has no angle and the right elbow has one
C15_Witness ==
  /\ result.by = "computeAnglesFromKPs"
  /\ Len(posePair.front) = 17
  /\ ~Present(posePair.front, idx("left_wrist"))
  /\ result.value["Left Elbow"] = [angle |-> Null, conf |-> 0]
  /\ result.value["Right Elbow"].angle # Null

\* C16: for a label whose three keypoints are in the array, the conf reported by
\* computeAnglesFromKPs is the least of the three scores
C16_JointConfidence ==
  result.by = "computeAnglesFromKPs" =>
    \A label \in Labels :
      AllThree(posePair.front, label) =>
        LET t == Indexes(label)
            kps == posePair.front
        IN /\ result.value[label].conf \in {kps[t[k]].score : k \in 1..3}
           /\ \A k \in 1..3 : result.value[label].conf <= kps[t[k]].score

\* C16 witness: three different scores, the least of them reported
C16_Witness ==
  /\ result.by = "computeAnglesFromKPs"
  /\ IsComplete(posePair.front)
  /\ posePair.front[8].score < posePair.front[10].score
  /\ posePair.front[6].score < posePair.front[8].score
  /\ result.value["Left Elbow"].conf = posePair.front[6].score

\* C17: for two poses of 17 keypoints, pickBestByJoint returns 17 entries, entry
\* i being the whole keypoint front[i] when front[i].score >= side[i].score and
\* side[i] otherwise, so that its score is the greater of the two
C17_PickBestByJoint ==
  (result.by = "pickBestByJoint" /\ IsComplete(posePair.front) /\ IsComplete(posePair.side)) =>
    /\ ~result.threw
    /\ Len(result.value) = 17
    /\ \A i \in 1..17 :
         /\ posePair.front[i].score >= posePair.side[i].score => result.value[i] = posePair.front[i]
         /\ posePair.front[i].score < posePair.side[i].score => result.value[i] = posePair.side[i]
         /\ result.value[i].score = Max(posePair.front[i].score, posePair.side[i].score)

\* C17 witness: keypoints of both views in the merged pose, and a tie between
\* two different keypoints that went to the front view
C17_Witness ==
  /\ result.by = "pickBestByJoint"
  /\ IsComplete(posePair.front) /\ IsComplete(posePair.side)
  /\ \E i \in 1..17 : posePair.front[i].score < posePair.side[i].score
  /\ \E i \in 1..17 : posePair.front[i].score > posePair.side[i].score
  /\ \E i \in 1..17 :
       /\ posePair.front[i].score = posePair.side[i].score
       /\ posePair.front[i] # posePair.side[i]
       /\ result.value[i] = posePair.front[i]

\* arm, leg and torso of a complete pose by the formulas: the means of the
\* shoulder-to-wrist and hip-to-ankle distances of the two sides, and the distance
\* between the midpoint of the shoulders and the midpoint of the hips
FormulaLengths(kps) ==
  LET at(name) == kps[idx(name)]
      t == dist(midpoint(at("left_shoulder"), at("right_shoulder")),
                midpoint(at("left_hip"), at("right_hip")))
  IN [arm |-> <<dist(at("left_shoulder"), at("left_wrist")),
                dist(at("right_shoulder"), at("right_wrist"))>>,
      leg |-> <<dist(at("left_hip"), at("left_ankle")),
                dist(at("right_hip"), at("right_ankle"))>>,
      torso |-> <<t, t>>]

\* a mean of two lengths to the decimals the function keeps
Rounded(by, pair) ==
  IF by = "proportions" THEN meanFixed1(pair[1], pair[2])
  ELSE Pixels(MeanRounded(pair[1], pair[2], DistUnit \div 10000))

\* C18: for a complete pose of 17 keypoints, computeProportions and proportions
\* return arm, leg and torso as the formulas give them
C18_ProportionFormulas ==
  (result.by \in {"computeProportions", "proportions"} /\ IsComplete(posePair.front)) =>
    /\ ~result.threw
    /\ \A field \in {"arm", "leg", "torso"} :
         result.value[field] = Rounded(result.by, FormulaLengths(posePair.front)[field])

\* C19: for an array in which one of the eight keypoints used is missing,
\* computeProportions and proportions do not throw, and the fields are null
C19_ProportionsNullSafe ==
  (/\ result.by \in {"computeProportions", "proportions"}
   /\ \E name \in ProportionNames : ~Present(posePair.front, idx(name))) =>
    /\ ~result.threw
    /\ \E field \in {"arm", "leg", "torso"} : result.value[field] = Null

\* (p - c) / scale of a coordinate, with c the middle of the bounding box and
\* scale its longer side, or 1 px for a box of width 0 and height 0
Normalized(v, lo, hi, longer) ==
  Fraction(2 * v - (lo + hi), 2 * (IF longer = 0 THEN Unit ELSE longer))

\* a quotient as the function returns it
Shown(by, v) == IF by = "normalizePose" THEN toPrecision4(v) ELSE v

\* C20: normalizePose and normalize map every point p to (p - c) / scale, c the
\* middle of the bounding box and scale its longer side; for points that all
\* coincide the scale is 1 and every point is mapped to (0, 0)
C20_DegenerateBoundingBox ==
  (result.by \in {"normalizePose", "normalize"} /\ ~mapThrows(posePair.front)) =>
    LET kps == posePair.front
        b == Box(kps)
        longer == Max(b.maxX - b.minX, b.maxY - b.minY)
    IN /\ ~result.threw
       /\ Len(result.value) = Len(kps)
       /\ \A i \in 1..Len(kps) :
            /\ result.value[i].nx = Shown(result.by, Normalized(kps[i].x, b.minX, b.maxX, longer))
            /\ result.value[i].ny = Shown(result.by, Normalized(kps[i].y, b.minY, b.maxY, longer))
            /\ longer = 0 => /\ result.value[i].nx = Shown(result.by, Fraction(0, 1))
                             /\ result.value[i].ny = Shown(result.by, Fraction(0, 1))

(***************************************************************************)
(* Specification of normalization under similarity: a point set, its image *)
(* under a uniform scale and a translation, and a normalizer applied to    *)
(* both                                                                    *)
(***************************************************************************)
\* the scales k > 0 as quotients and the translations in px
Scales == {[num |-> 1, den |-> 2], [num |-> 1, den |-> 1], [num |-> 3, den |-> 1]}
Shifts == {-50, 0, 125}
Similarities ==
  {[by |-> "similarity", k |-> k, tx |-> tx * Unit, ty |-> ty * Unit] :
     k \in Scales, tx \in Shifts, ty \in Shifts}

\* k * P + t
Similar(kps, t) ==
  [i \in 1..Len(kps) |->
     IF kps[i] = NoPoint THEN NoPoint
     ELSE [kps[i] EXCEPT !.x = (@ * t.k.num) \div t.k.den + t.tx,
                         !.y = (@ * t.k.num) \div t.k.den + t.ty]]

SmInit ==
  /\ img = [width |-> CANVAS_SIZE, height |-> CANVAS_SIZE]
  /\ pad = NoPad
  /\ ResolveIdle
  /\ AnglesIdle
  /\ RunIdle
  /\ overshoot = FALSE
  /\ points = NoPoints
  /\ transform \in Similarities
  /\ \E P \in MetricPoses : posePair = [front |-> P, side |-> Similar(P, transform)]
  /\ result = NoResult

\* normalizePose of the point set and of its image
CallNormalizePoseOnBoth ==
  /\ result = NoResult
  /\ result' = [by |-> "normalizePose", original |-> normalizePose(posePair.front),
                image |-> normalizePose(posePair.side)]
  /\ UNCHANGED <<lbVars, rsVars, anVars, runVars, overshoot, points, posePair, transform>>

\* normalize of the point set and of its image
CallNormalizeOnBoth ==
  /\ result = NoResult
  /\ result' = [by |-> "normalize", original |-> normalize(posePair.front),
                image |-> normalize(posePair.side)]
  /\ UNCHANGED <<lbVars, rsVars, anVars, runVars, overshoot, points, posePair, transform>>

SmNext ==
  \/ CallNormalizePoseOnBoth
  \/ CallNormalizeOnBoth

SpecSimilarity == SmInit /\ [][SmNext]_vars

\* the quotient is a number: not 0 / 0 and not an infinity
IsNumber(v) == v.den # 0

\* C21: normalizePose gives every point of k * P + t the nx and ny it gives the
\* point of P, for every point set P, scale k > 0 and translation t; so does
\* normalize wherever its coordinates are numbers
C21_SimilarityInvariance ==
  (result.by \in {"normalizePose", "normalize"} /\ ~result.original.threw) =>
    /\ ~result.image.threw
    /\ Len(result.image.value) = Len(result.original.value)
    /\ \A i \in 1..Len(result.original.value) :
         LET o == result.original.value[i]
             m == result.image.value[i]
         IN (result.by = "normalize" => IsNumber(o.nx) /\ IsNumber(o.ny)) =>
              m.nx = o.nx /\ m.ny = o.ny

\* C21 witness: normalizePose of a pose and of its image three times the size and
\* moved along both axes, with coordinates other than 0
C21_Witness ==
  /\ result.by = "normalizePose"
  /\ transform.k = [num |-> 3, den |-> 1]
  /\ transform.tx # 0 /\ transform.ty # 0
  /\ ~result.original.threw
  /\ Len(posePair.front) = 17
  /\ posePair.side[1].x # posePair.front[1].x
  /\ \E i \in 1..17 : result.original.value[i].nx.mant # 0 /\ result.image.value[i].nx.mant # 0

(***************************************************************************)
(* Specification of two transforms in sequence: keypoints in the pixels of *)
(* the detector's canvas, transformKeypoints, and the display mapping of   *)
(* renderResult.  The scales are whole numbers of 1/1024, for which the    *)
(* products and sums of the code are exact.                                *)
(***************************************************************************)
FracAdd(a, b) == Fraction(a.num * b.den + b.num * a.den, a.den * b.den)
FracMul(a, b) == Fraction(a.num * b.num, a.den * b.den)
FracMin(a, b) == IF a.num * b.den <= b.num * a.den THEN a ELSE b
\* Math.round: the nearest integer, a half upwards
RoundFrac(f) == (2 * f.num + f.den) \div (2 * f.den)
\* a coordinate in 1/Unit px as a number of px
InPx(v) == Fraction(v, Unit)

\* app.js (second script): the scale and offsets that fit padCanvas into the
\* result box
displayFit(padCanvas, resultBox) ==
  LET scale == FracMin(Fraction(resultBox.clientWidth, padCanvas.width),
                       Fraction(resultBox.clientHeight, padCanvas.height))
      drawW == FracMul(Fraction(padCanvas.width, 1), scale)
      drawH == FracMul(Fraction(padCanvas.height, 1), scale)
      half == Fraction(1, 2)
  IN [scale |-> scale,
      dx |-> FracMul(half, FracAdd(Fraction(resultBox.clientWidth, 1), FracMul(Fraction(-1, 1), drawW))),
      dy |-> FracMul(half, FracAdd(Fraction(resultBox.clientHeight, 1), FracMul(Fraction(-1, 1), drawH)))]

\* app.js (second script): the keypoints in the pixels of the displayed canvas,
\* Math.round(dx + k.x * scale)
renderResult(padCanvas, kpArray, resultBox) ==
  LET fit == displayFit(padCanvas, resultBox)
  IN [i \in 1..Len(kpArray) |->
        [x |-> RoundFrac(FracAdd(fit.dx, FracMul(InPx(kpArray[i].x), fit.scale))),
         y |-> RoundFrac(FracAdd(fit.dy, FracMul(InPx(kpArray[i].y), fit.scale))),
         score |-> kpArray[i].score]]

\* the result boxes tried, and the images whose letterbox scale is exact
ResultBoxes ==
  {[clientWidth |-> w, clientHeight |-> h] :
     <<w, h>> \in {<<175, 175>>, <<350, 700>>, <<525, 350>>, <<700, 1050>>, <<350, 350>>}}
ExactImages ==
  {[width |-> 400, height |-> 300], [width |-> 300, height |-> 400],
   [width |-> 350, height |-> 350], [width |-> 700, height |-> 350]}
FirstScales == {1, 2}
FirstOffsets == {0, 25}

ComposePoses == {MetricPose(shape, "high", Complete) : shape \in {Standing, Leaning, Profile}}

CpInit ==
  /\ img \in ExactImages
  /\ pad = drawPadded(img)
  /\ ResolveIdle
  /\ AnglesIdle
  /\ RunIdle
  /\ overshoot = FALSE
  /\ points = NoPoints
  /\ \E scale \in FirstScales, x0 \in FirstOffsets, y0 \in FirstOffsets, box \in ResultBoxes :
       transform = [by |-> "compose", scale |-> scale, x0 |-> x0, y0 |-> y0, resultBox |-> box]
  /\ \E P \in ComposePoses : posePair = [front |-> P, side |-> <<>>]
  /\ result = NoResult

\* transformKeypoints of app.js, then the display mapping
ComposeA1 ==
  /\ result = NoResult
  /\ LET kps == transformKeypointsA1(posePair.front, transform.scale, transform.x0, transform.y0)
     IN result' = [by |-> "transformKeypointsA1", kps |-> kps,
                   shown |-> renderResult(Canvas(target), kps, transform.resultBox)]
  /\ UNCHANGED <<lbVars, rsVars, anVars, runVars, overshoot, points, posePair, transform>>

\* transformKeypoints of part_000, then the display mapping
ComposeP0b ==
  /\ result = NoResult
  /\ LET kps == transformKeypoints(posePair.front, pad)
     IN result' = [by |-> "transformKeypoints", kps |-> kps,
                   shown |-> renderResult(Canvas(target), kps, transform.resultBox)]
  /\ UNCHANGED <<lbVars, rsVars, anVars, runVars, overshoot, points, posePair, transform>>

CpNext ==
  \/ ComposeA1
  \/ ComposeP0b

SpecCompose == CpInit /\ [][CpNext]_vars

\* the scale and offsets of the first transform as numbers
FirstTransform ==
  IF result.by = "transformKeypointsA1"
  THEN [s |-> Fraction(transform.scale, 1), ox |-> Fraction(transform.x0, 1),
        oy |-> Fraction(transform.y0, 1)]
  ELSE [s |-> Fraction(TimesFloor(1024, pad.scale), 1024),
        ox |-> InPx(ToUnits(pad.offsetX)), oy |-> InPx(ToUnits(pad.offsetY))]

\* the one transform with scale s1 * s2 and offset o2 + o1 * s2
Combined(first, second) ==
  [s |-> FracMul(first.s, second.scale),
   ox |-> FracAdd(second.dx, FracMul(first.ox, second.scale)),
   oy |-> FracAdd(second.dy, FracMul(first.oy, second.scale))]

\* C22: transformKeypoints (s1, o1) followed by the display mapping (s2, o2) of
\* renderResult puts every keypoint where the one transform with scale s1 * s2
\* and offset o2 + o1 * s2 puts it, rounded as the display mapping rounds
C22_TransformComposition ==
  result.by \in {"transformKeypointsA1", "transformKeypoints"} =>
    LET c == Combined(FirstTransform, displayFit(Canvas(target), transform.resultBox))
    IN \A i \in 1..Len(posePair.front) :
         /\ result.shown[i].x = RoundFrac(FracAdd(c.ox, FracMul(InPx(posePair.front[i].x), c.s)))
         /\ result.shown[i].y = RoundFrac(FracAdd(c.oy, FracMul(InPx(posePair.front[i].y), c.s)))

\* C22 witness: a first transform with a scale other than 1 and an offset, and a
\* display mapping with a scale other than 1 and an offset
C22_Witness ==
  /\ result.by = "transformKeypointsA1"
  /\ transform.scale = 2 /\ transform.x0 = 25
  /\ transform.resultBox = [clientWidth |-> 525, clientHeight |-> 350]
  /\ result.shown[1].x # posePair.front[1].x \div Unit

(***************************************************************************)
(* Specification of the stages a keypoint array goes through in each       *)
(* script, for the arrays of two views that agree at some indexes          *)
(***************************************************************************)
\* app.js (third script): the scale that fits padCanvas into the result box, at
\* most 1, and the keypoints Math.round(k.x * scale) with their names
renderResultA3(padCanvas, rawKeypoints, resultBox) ==
  LET scale == FracMin(FracMin(Fraction(resultBox.clientWidth, padCanvas.width),
                               Fraction(resultBox.clientHeight, padCanvas.height)),
                       Fraction(1, 1))
  IN [i \in 1..Len(rawKeypoints) |->
        [name |-> IF i <= Len(KEYPOINT_NAMES) THEN KEYPOINT_NAMES[i] ELSE Undefined,
         x |-> RoundFrac(FracMul(InPx(rawKeypoints[i].x), scale)),
         y |-> RoundFrac(FracMul(InPx(rawKeypoints[i].y), scale)),
         score |-> rawKeypoints[i].score]]

\* mapToModelCoords copying the coordinates without the array of 17
mapToModelCoordsAsGiven(displayCoords) ==
  [i \in 1..Len(displayCoords) |-> [x |-> displayCoords[i].x, y |-> displayCoords[i].y]]

\* app.js (second script): an array of KEYPOINT_NAMES.length entries, entry i the
\* x and y of displayCoords[i], or null where there is none
mapToModelCoords(displayCoords) ==
  [i \in 1..Len(KEYPOINT_NAMES) |->
     IF i <= Len(displayCoords) /\ displayCoords[i] # NoPoint
     THEN [x |-> displayCoords[i].x, y |-> displayCoords[i].y]
     ELSE NoPoint]

\* what the detector returned for a view: 17 keypoints or the first 15 of them,
\* normalized or in px
StageScores == {62000, 90000}
StageLengths == {17, 15}
StagePoses ==
  {SubSeq(DetectedPose(shape, normalized, base, {}), 1, kept) :
     shape \in {Standing, Collapsed}, normalized \in BOOLEAN, base \in StageScores,
     kept \in StageLengths}
StageImages == {[width |-> 400, height |-> 300], [width |-> 300, height |-> 400]}
StageBoxes ==
  {[clientWidth |-> 350, clientHeight |-> 350], [clientWidth |-> 175, clientHeight |-> 300]}

StInit ==
  /\ img \in StageImages
  /\ pad = NoPad
  /\ ResolveIdle
  /\ AnglesIdle
  /\ RunIdle
  /\ overshoot = FALSE
  /\ points = NoPoints
  /\ \E box \in StageBoxes : transform = [by |-> "display", resultBox |-> box]
  /\ posePair \in [front : StagePoses, side : StagePoses]
  /\ result = NoResult

\* a stage applied to the array of each view
Stage(name, in, out) == [stage |-> name, in |-> in, out |-> out, threw |-> FALSE]
OnBoth(Op(_), in) == [front |-> Op(in.front), side |-> Op(in.side)]

\* app.js (second script): padToSquare, normalizeKeypoints, renderResult,
\* mapToModelCoords
StagesA2 ==
  /\ result = NoResult
  /\ pad' = padToSquare(img)
  /\ LET normalizeStage(kps) == normalizeKeypoints(kps, pad'.size)
         render(kps) == renderResult(Canvas(pad'.size), kps, transform.resultBox)
     IN \E kps \in {OnBoth(normalizeStage, posePair)} :
          \E coords \in {OnBoth(render, kps)} :
            result' = [by |-> "A2",
                       stages |-> << Stage("normalizeKeypoints", posePair, kps),
                                     Stage("renderResult", kps, coords),
                                     Stage("mapToModelCoords", coords,
                                           OnBoth(mapToModelCoords, coords)) >>]
  /\ UNCHANGED <<img, rsVars, anVars, runVars, overshoot, points, posePair, transform>>

\* app.js (third script): padToSquare, normalizeKeypoints, renderResult
StagesA3 ==
  /\ result = NoResult
  /\ pad' = padToSquare(img)
  /\ LET normalizeStage(kps) == normalizeKeypoints(kps, pad'.size)
         render(kps) == renderResultA3(Canvas(pad'.size), kps, transform.resultBox)
     IN \E raw \in {OnBoth(normalizeStage, posePair)} :
          result' = [by |-> "A3",
                     stages |-> << Stage("normalizeKeypoints", posePair, raw),
                                   Stage("renderResultA3", raw, OnBoth(render, raw)) >>]
  /\ UNCHANGED <<img, rsVars, anVars, runVars, overshoot, points, posePair, transform>>

\* part_000 (first script): padToSquare, convertCoords
StagesP0a ==
  /\ result = NoResult
  /\ pad' = padToSquareP0a(img)
  /\ LET convert(kps) == convertCoords(kps, pad')
     IN result' = [by |-> "P0a",
                   stages |-> << Stage("convertCoords", posePair, OnBoth(convert, posePair)) >>]
  /\ UNCHANGED <<img, rsVars, anVars, runVars, overshoot, points, posePair, transform>>

\* part_000 (second script): drawPadded, transformKeypoints, pickBestByJoint
StagesP0b ==
  /\ result = NoResult
  /\ pad' = drawPadded(img)
  /\ LET transformStage(kps) == transformKeypoints(kps, pad')
     IN \E kps \in {OnBoth(transformStage, posePair)} :
          result' = [by |-> "P0b",
                     stages |-> << Stage("transformKeypoints", posePair, kps),
                                   IF pickBestByJointThrows(kps.front, kps.side)
                                   THEN [stage |-> "pickBestByJoint", in |-> kps, threw |-> TRUE]
                                   ELSE [stage |-> "pickBestByJoint", in |-> kps, threw |-> FALSE,
                                         out |-> pickBestByJoint(kps.front, kps.side)] >>]
  /\ UNCHANGED <<img, rsVars, anVars, runVars, overshoot, points, posePair, transform>>

StNext ==
  \/ StagesA2
  \/ StagesA3
  \/ StagesP0a
  \/ StagesP0b

SpecStages == StInit /\ [][StNext]_vars

\* the stages that give their keypoints a name
Naming == {"convertCoords", "renderResultA3"}

\* entry i of the output of a stage is made of entry i of its input alone: where
\* the arrays of the two views have the same entry i, so have the outputs; and a
\* stage that names its keypoints names entry i KEYPOINT_NAMES[i]
SameIndex(st) ==
  IF st.stage = "pickBestByJoint"
  THEN ~st.threw =>
         \A i \in 1..Len(st.out) : st.out[i] \in {st.in.front[i], st.in.side[i]}
  ELSE /\ \A i \in 1..Min(Len(st.in.front), Len(st.in.side)) :
            st.in.front[i] = st.in.side[i] => st.out.front[i] = st.out.side[i]
       /\ st.stage \in Naming =>
            \A v \in Views : \A i \in 1..Len(st.out[v]) : st.out[v][i].name = KEYPOINT_NAMES[i]

\* the output of a stage has as many entries as its input, or as each of its
\* inputs
SameLength(st) ==
  IF st.stage = "pickBestByJoint"
  THEN ~st.threw => Len(st.out) = Len(st.in.front) /\ Len(st.out) = Len(st.in.side)
  ELSE \A v \in Views : Len(st.out[v]) = Len(st.in[v])

\* the lengths as the stages keep them: mapToModelCoords returns 17 entries, null
\* where the input has none, and pickBestByJoint as many as the front array has
LengthKept(st) ==
  CASE st.stage = "mapToModelCoords" ->
         \A v \in Views :
           /\ Len(st.out[v]) = Len(KEYPOINT_NAMES)
           /\ \A i \in 1..Len(KEYPOINT_NAMES) : i > Len(st.in[v]) => st.out[v][i] = NoPoint
    [] st.stage = "pickBestByJoint" ->
         IF st.threw THEN Len(st.in.side) < Len(st.in.front)
         ELSE Len(st.out) = Len(st.in.front)
    [] OTHER -> SameLength(st)

====
